---- MODULE Spec2Model ----
(***************************************************************************)
(* A model of the Webflow agent: the per-step retry / repair loop of       *)
(* AgentB.execute_task and the plan pipeline of AgentB.understand_task     *)
(* (src/src/agent.py), and the element resolution of Navigator.click,      *)
(* Navigator.type and Navigator.select (src/src/navigator.py).             *)
(*                                                                         *)
(* Python strings are TLA+ strings; the str methods that the code uses     *)
(* (lower, strip, split, startswith, "in", replace) are the operators of   *)
(* the first section, computed character by character.                     *)
(***************************************************************************)
EXTENDS Integers, Sequences, FiniteSets, TLC

(***************************************************************************)
(* Python str methods                                                      *)
(***************************************************************************)

\* Python's None (a missing dict key read with .get(), or a JSON null).
None == "<None>"

UpperChars == "ABCDEFGHIJKLMNOPQRSTUVWXYZ"

LowerChars == "abcdefghijklmnopqrstuvwxyz"

\* One character of str.lower().
LowerChar(c) ==
    IF \E i \in 1..Len(UpperChars) : SubSeq(UpperChars, i, i) = c
    THEN LET i == CHOOSE j \in 1..Len(UpperChars) : SubSeq(UpperChars, j, j) = c
         IN  SubSeq(LowerChars, i, i)
    ELSE c

RECURSIVE Lower(_)
\* str.lower()
Lower(s) ==
    IF Len(s) = 0 THEN ""
    ELSE LowerChar(SubSeq(s, 1, 1)) \o Lower(SubSeq(s, 2, Len(s)))

\* Python's "t in s" for two strings.
Contains(s, t) ==
    \/ Len(t) = 0
    \/ \E i \in 1..(Len(s) - Len(t) + 1) : SubSeq(s, i, i + Len(t) - 1) = t

\* s.startswith(t)
StartsWith(s, t) ==
    /\ Len(t) <= Len(s)
    /\ (Len(t) = 0 \/ SubSeq(s, 1, Len(t)) = t)

\* s.endswith(t)
EndsWith(s, t) ==
    /\ Len(t) <= Len(s)
    /\ (Len(t) = 0 \/ SubSeq(s, Len(s) - Len(t) + 1, Len(s)) = t)

\* c is one of the characters of the string chars.
CharIn(c, chars) == \E i \in 1..Len(chars) : SubSeq(chars, i, i) = c

RECURSIVE LStripChars(_, _)
LStripChars(s, chars) ==
    IF Len(s) > 0 /\ CharIn(SubSeq(s, 1, 1), chars)
    THEN LStripChars(SubSeq(s, 2, Len(s)), chars)
    ELSE s

RECURSIVE RStripChars(_, _)
RStripChars(s, chars) ==
    IF Len(s) > 0 /\ CharIn(SubSeq(s, Len(s), Len(s)), chars)
    THEN RStripChars(SubSeq(s, 1, Len(s) - 1), chars)
    ELSE s

\* s.strip(chars)
StripChars(s, chars) == RStripChars(LStripChars(s, chars), chars)

\* s.strip()
Strip(s) == StripChars(s, " ")

RECURSIVE SplitFrom(_, _, _)
\* The words of s from position i on; cur is the word being read.
SplitFrom(s, i, cur) ==
    IF i > Len(s)
    THEN IF Len(cur) > 0 THEN <<cur>> ELSE <<>>
    ELSE IF SubSeq(s, i, i) = " "
         THEN IF Len(cur) > 0
              THEN <<cur>> \o SplitFrom(s, i + 1, "")
              ELSE SplitFrom(s, i + 1, "")
         ELSE SplitFrom(s, i + 1, cur \o SubSeq(s, i, i))

\* s.split(): the whitespace-separated words of s, in order.
Split(s) == SplitFrom(s, 1, "")

\* set(s.split())
WordSet(s) == {Split(s)[i] : i \in 1..Len(Split(s))}

RECURSIVE Replace(_, _, _)
\* s.replace(old, new), old non-empty.
Replace(s, old, new) ==
    IF Len(s) < Len(old) THEN s
    ELSE IF SubSeq(s, 1, Len(old)) = old
         THEN new \o Replace(SubSeq(s, Len(old) + 1, Len(s)), old, new)
         ELSE SubSeq(s, 1, 1) \o Replace(SubSeq(s, 2, Len(s)), old, new)

\* s.split("=", 1)[1]: what follows the first "=" of s (s holds one).
AfterFirstEq(s) ==
    LET i == CHOOSE j \in 1..Len(s) :
                 /\ SubSeq(s, j, j) = "="
                 /\ \A k \in 1..(j - 1) : SubSeq(s, k, k) # "="
    IN  SubSeq(s, i + 1, Len(s))

(***************************************************************************)
(* AgentB: plan steps, the repair oracle and the semantic guardrail        *)
(***************************************************************************)

\* max_retries of execute_task's retry loop.
max_retries == 2

\* Longest plan that Init draws.
MaxSteps == 2

\* A plan step (a dict of the planner's JSON); target = None is a step
\* without a "target" key.
MkStep(d, a, t, v, cb, ca) ==
    [description |-> d, action |-> a, target |-> t, value |-> v,
     captureBefore |-> cb, captureAfter |-> ca]

\* The steps that plans are drawn from.
StepPool ==
    { MkStep("Click the Create issue button", "click", "text='Create issue'", "", FALSE, TRUE),
      MkStep("Enter the assignee", "type", "Assignee", "me", FALSE, FALSE),
      MkStep("Enter the name", "type", "Name input", "Bug", FALSE, FALSE),
      MkStep("Open the form", "click", None, "", FALSE, FALSE),
      MkStep("Wait for page load", "wait", "body", "", TRUE, FALSE) }

\* The steps of the plans that execute_task is given: understand_task can
\* return a plan whose steps were all removed.
Plans == UNION { [1..n -> StepPool] : n \in 0..MaxSteps }

\* A reply of the repair oracle: raises = the request raised or its content
\* is not JSON; hasTarget = the "target" key is present; target = None is a
\* JSON null; suggestedAction = None is a missing key.
MkSuggestion(r, sk, ht, t, a) ==
    [raises |-> r, skip |-> sk, hasTarget |-> ht, target |-> t,
     suggestedAction |-> a]

\* The replies that the oracle is taken to give.
Suggestions ==
    { MkSuggestion(TRUE, FALSE, FALSE, "", None),
      MkSuggestion(FALSE, TRUE, TRUE, "Assign user", "click"),
      MkSuggestion(FALSE, FALSE, FALSE, "", None),
      MkSuggestion(FALSE, FALSE, TRUE, None, None),
      MkSuggestion(FALSE, FALSE, TRUE, "Description", "type"),
      MkSuggestion(FALSE, FALSE, TRUE, " Assignee input ", "type"),
      MkSuggestion(FALSE, FALSE, TRUE, "Assign user", None),
      MkSuggestion(FALSE, FALSE, TRUE, "[aria-label='Create issue']", "click"),
      MkSuggestion(FALSE, FALSE, TRUE, "Name", "click"),
      MkSuggestion(FALSE, FALSE, TRUE, "Input field", "type") }

\* The step as marked to be skipped (action renamed to a no-op).
SkipStep(step) == [step EXCEPT !.action = "skip", !.target = "step-skipped"]

explicit_mismatches ==
    << <<"assignee", "title">>,
       <<"assignee", "name">>,
       <<"assignee", "description">>,
       <<"title", "description">>,
       <<"title", "assignee">>,
       <<"description", "title">>,
       <<"description", "assignee">> >>

\* Some (original, wrong_field) pair has original in the step's target and
\* wrong_field in the suggested target.
ExplicitMismatch(original_target_lower, suggested_lower) ==
    \E i \in 1..Len(explicit_mismatches) :
        /\ Contains(original_target_lower, explicit_mismatches[i][1])
        /\ Contains(suggested_lower, explicit_mismatches[i][2])

original_keywords(original_target_lower) ==
    {w \in WordSet(original_target_lower) : Len(w) > 2}

matches_semantically(original_target_lower, suggested_lower) ==
    \/ Contains(suggested_lower, original_target_lower)
    \/ Contains(original_target_lower, suggested_lower)
    \/ \E keyword \in original_keywords(original_target_lower) :
           Contains(suggested_lower, keyword)
    \/ /\ original_target_lower = "assignee"
       /\ \/ Contains(suggested_lower, "assign")
          \/ Contains(suggested_lower, "user")
          \/ Contains(suggested_lower, "owner")
    \/ /\ original_target_lower = "title"
       /\ \/ Contains(suggested_lower, "title")
          \/ Contains(suggested_lower, "name") /\ Contains(suggested_lower, "issue")
    \/ /\ original_target_lower = "description"
       /\ \/ Contains(suggested_lower, "description")
          \/ Contains(suggested_lower, "body")
          \/ Contains(suggested_lower, "content")

\* failed_step.get('target', '')
StepTargetOrEmpty(step) == IF step.target = None THEN "" ELSE step.target

\* suggestion.get("target", "").strip(), for a target that is a string.
SuggestedTarget(sug) == IF sug.hasTarget THEN Strip(sug.target) ELSE ""

\* RepairVerdict with the skip flag read only after the target checks: a
\* reply with skip = true and a target that passes them is accepted.
RepairVerdict_SkipReadLast(step, sug) ==
    IF sug.raises THEN "oracle_error"
    ELSE IF sug.hasTarget /\ sug.target = None THEN "null_target"
    ELSE IF SuggestedTarget(sug) = ""
         THEN IF sug.skip THEN "skip_requested" ELSE "no_target"
    ELSE IF ExplicitMismatch(Strip(Lower(StepTargetOrEmpty(step))),
                             Lower(SuggestedTarget(sug)))
         THEN "explicit_mismatch"
    ELSE IF ~matches_semantically(Strip(Lower(StepTargetOrEmpty(step))),
                                  Lower(SuggestedTarget(sug)))
         THEN "no_semantic_match"
    ELSE IF step.target = None THEN "missing_key"
    ELSE "accepted"

\* Which branch of _adapt_plan_from_page a reply takes for a failed step.
RepairVerdict(step, sug) ==
    IF sug.raises THEN "oracle_error"
    ELSE IF sug.skip THEN "skip_requested"
    ELSE IF sug.hasTarget /\ sug.target = None THEN "null_target"
    ELSE IF SuggestedTarget(sug) = "" THEN "no_target"
    ELSE IF ExplicitMismatch(Strip(Lower(StepTargetOrEmpty(step))),
                             Lower(SuggestedTarget(sug)))
         THEN "explicit_mismatch"
    ELSE IF ~matches_semantically(Strip(Lower(StepTargetOrEmpty(step))),
                                  Lower(SuggestedTarget(sug)))
         THEN "no_semantic_match"
    ELSE IF step.target = None THEN "missing_key"
    ELSE "accepted"

\* AdaptedStep without the return of the "doesn't semantically match"
\* branch: the unrelated suggestion is written into the step.
AdaptedStep_CommitsUnrelated(step, sug) ==
    LET verdict == RepairVerdict(step, sug)
    IN  IF verdict \in {"oracle_error", "null_target", "missing_key"} THEN step
        ELSE IF verdict \in {"skip_requested", "no_target", "explicit_mismatch"}
             THEN SkipStep(step)
        ELSE [step EXCEPT
                !.target = SuggestedTarget(sug),
                !.action = IF /\ sug.suggestedAction # None
                              /\ sug.suggestedAction # ""
                              /\ sug.suggestedAction # step.action
                           THEN sug.suggestedAction
                           ELSE @]

\* AdaptedStep that also clears the value of a step it rewrites.
AdaptedStep_ClearsValue(step, sug) ==
    LET verdict == RepairVerdict(step, sug)
    IN  IF verdict \in {"oracle_error", "null_target", "missing_key"} THEN step
        ELSE IF verdict = "accepted"
             THEN [step EXCEPT !.target = SuggestedTarget(sug), !.value = ""]
        ELSE SkipStep(step)

\* The failed step as _adapt_plan_from_page leaves it. An exception of the
\* oracle call, of json.loads or of None.strip(), or the KeyError of reading
\* the old target of a step without that key, is caught by the handler of
\* the whole body, which changes nothing.
AdaptedStep(step, sug) ==
    LET verdict == RepairVerdict(step, sug)
    IN  IF verdict \in {"oracle_error", "null_target", "missing_key"} THEN step
        ELSE IF verdict \in {"skip_requested", "no_target", "explicit_mismatch",
                             "no_semantic_match"}
             THEN SkipStep(step)
        ELSE [step EXCEPT
                !.target = SuggestedTarget(sug),
                !.action = IF /\ sug.suggestedAction # None
                              /\ sug.suggestedAction # ""
                              /\ sug.suggestedAction # step.action
                           THEN sug.suggestedAction
                           ELSE @]

selector_prefixes ==
    <<"text=", "css=", "xpath=", "#", ".", "[", "button:", "a:", "input:", "select:">>

\* _is_selector_not_url(target)
IsSelectorNotUrl(target) ==
    IF target = None \/ target = "" THEN FALSE
    ELSE IF StartsWith(target, "http://") \/ StartsWith(target, "https://") THEN FALSE
    ELSE IF \E i \in 1..Len(selector_prefixes) : StartsWith(target, selector_prefixes[i])
         THEN TRUE
    ELSE IF Contains(target, " ") /\ ~StartsWith(target, "http") THEN TRUE
    ELSE Len(Split(target)) <= 3 /\ ~Contains(Split(target)[1], ".")

NavigatorActions ==
    {"navigate", "click", "type", "wait", "select", "discover", "find", "extractText"}

\* The navigator method that execute_step calls for a step, "none" when it
\* returns without touching the navigator (skip, or an unknown action).
NavOp(step) ==
    IF step.action = "navigate" /\ IsSelectorNotUrl(step.target) THEN "click"
    ELSE IF step.action \in NavigatorActions THEN step.action
    ELSE "none"

\* The alternative selectors of _try_alternative_approach, in order.
alternatives(target) ==
    << Replace(target, "'", "\""),
       StripChars(Replace(target, "text=", ""), "'\""),
       "button:has-text('" \o target \o "')",
       "a:has-text('" \o target \o "')",
       "[aria-label*='" \o target \o "']" >>

skip_keywords ==
    <<"discover", "find", "extract", "identify", "locate", "search", "wait",
      "check", "verify", "read", "examine">>

meaningful_actions == <<"click", "type", "select", "submit", "navigate">>

\* ScreenshotCapture._should_skip_capture
ShouldSkipCapture(description, capture_type) ==
    LET description_lower == Lower(description)
    IN  IF capture_type = "final" \/ Contains(description_lower, "final") THEN FALSE
        ELSE IF Contains(description_lower, "login") \/ capture_type = "after-login"
             THEN FALSE
        ELSE /\ \E i \in 1..Len(skip_keywords) :
                    Contains(description_lower, skip_keywords[i])
             /\ ~\E j \in 1..Len(meaningful_actions) :
                    Contains(description_lower, meaningful_actions[j])

\* What ScreenshotCapture.capture returns: None for a skipped capture,
\* else the state record (its type stands for the record).
Capture(description, capture_type) ==
    IF ShouldSkipCapture(description, capture_type) THEN None ELSE capture_type

(***************************************************************************)
(* Navigator.click: target descriptor, candidate scoring, ranking          *)
(***************************************************************************)

\* Longest page (number of visible elements) that InitClick draws.
MaxElements == 2

\* A visible element of the page: text content, aria-label, id, class,
\* type, title and data-testid attributes, tag name, whether the button
\* query of the scoring strategy returns it, and its ancestors: "dialog"
\* (a form or role=dialog ancestor), "modal" (only an ancestor of class
\* modal, form or Dialog) or "none".
MkElement(tx, ar, id, cl, ty, tg, bt, ctx) ==
    [text |-> tx, aria_label |-> ar, id |-> id, class |-> cl, type |-> ty,
     title |-> "", testid |-> "", tag |-> tg, button |-> bt, context |-> ctx]

\* The elements that pages are drawn from.
ElementPool ==
    { MkElement("Create more", "", "create-more-toggle", "switch", "", "button", TRUE, "dialog"),
      MkElement("Create issue", "", "submit-btn", "btn primary", "submit", "button", TRUE, "dialog"),
      MkElement("Create issue", "", "", "toggle-button", "submit", "button", TRUE, "dialog"),
      MkElement("Recreate", "", "", "", "", "button", TRUE, "none"),
      MkElement("", "Create more", "", "", "", "button", TRUE, "modal"),
      MkElement("Create", "Create", "", "", "", "a", TRUE, "none"),
      MkElement("Skip to create", "", "", "", "", "a", TRUE, "none"),
      [MkElement("", "", "", "", "", "div", FALSE, "none") EXCEPT !.title = "Create"] }

\* The pages: the visible elements in document order.
Pages == UNION { [1..n -> ElementPool] : n \in 1..MaxElements }

\* The selectors that click is called with.
ClickTargets ==
    { "text=Create more", "Create", "aria-label=Create", "text='Create issue'",
      "Create issue", "Recreate it", "Recreate" }

is_aria_label_selector(selector) ==
    StartsWith(selector, "aria-label=") \/ StartsWith(selector, "[aria-label")

is_text_selector(selector) == StartsWith(selector, "text=")

\* clean_selector: the selector without its prefix and quotes. (A selector
\* that starts with "[aria-label" and holds no "=" is not drawn here.)
clean_selector(selector) ==
    IF is_aria_label_selector(selector)
    THEN StripChars(AfterFirstEq(selector), "'\"")
    ELSE IF is_text_selector(selector)
         THEN StripChars(Replace(selector, "text=", ""), "'\"")
         ELSE StripChars(selector, "'\"")

ambiguous_keywords == <<"create", "new", "add", "edit", "delete", "save", "submit">>

is_ambiguous(selector) ==
    \/ /\ Len(Split(clean_selector(selector))) = 1
       /\ \E i \in 1..Len(ambiguous_keywords) :
              Contains(Lower(clean_selector(selector)), ambiguous_keywords[i])
    \/ is_aria_label_selector(selector)

common_words ==
    {"the", "a", "an", "and", "or", "but", "in", "on", "at", "to", "for", "of",
     "with", "by"}

SignificantWords(text) ==
    {w \in WordSet(Lower(text)) : w \notin common_words /\ Len(w) > 2}

\* _share_significant_words(text1, text2)
share_significant_words(text1, text2) ==
    IF text1 = "" \/ text2 = "" THEN FALSE
    ELSE LET words1 == SignificantWords(text1)
             words2 == SignificantWords(text2)
         IN  \/ Cardinality(words1 \cap words2) >= 2
             \/ /\ words1 # {} /\ words2 # {}
                /\ (words1 \subseteq words2 \/ words2 \subseteq words1)

\* len(s.split()) <= 3 and "more" in s
HasMore(lower) == Contains(lower, "more") /\ Len(Split(lower)) <= 3

\* The candidate loop's "skip toggle buttons entirely" test.
SkippedAsToggle(el) ==
    \/ HasMore(Lower(Strip(el.text)))
    \/ HasMore(Lower(Strip(el.aria_label)))
    \/ Contains(Lower(el.id), "toggle") \/ Contains(Lower(el.id), "more")
    \/ /\ el.tag = "input"
       /\ \/ el.type = "checkbox"
          \/ Contains(Lower(el.id), "toggle") \/ Contains(Lower(el.id), "more")

\* The match tier of a candidate for an aria-label selector, 0 for none.
AriaTier(sel_lower, aria_lower) ==
    IF sel_lower = aria_lower THEN 100
    ELSE IF StartsWith(aria_lower, sel_lower) THEN 80
    ELSE IF StartsWith(sel_lower, aria_lower) THEN 75
    ELSE IF share_significant_words(sel_lower, aria_lower) THEN 60
    ELSE IF Contains(aria_lower, sel_lower) \/ Contains(sel_lower, aria_lower) THEN 40
    ELSE 0

\* The match tier of a candidate for every other selector, 0 for none.
TextTier(sel_lower, text_lower, aria_lower) ==
    IF sel_lower = text_lower \/ sel_lower = aria_lower THEN 100
    ELSE IF StartsWith(text_lower, sel_lower \o " ") THEN 80
    ELSE IF StartsWith(text_lower, sel_lower) THEN 60
    ELSE IF \/ share_significant_words(sel_lower, text_lower)
            \/ share_significant_words(sel_lower, aria_lower) THEN 50
    ELSE IF Contains(text_lower, sel_lower) \/ Contains(aria_lower, sel_lower) THEN 40
    ELSE 0

\* The base score (first matching tier) of an element for a selector.
BaseScore(selector, el) ==
    IF is_aria_label_selector(selector)
    THEN AriaTier(Lower(clean_selector(selector)), Lower(Strip(el.aria_label)))
    ELSE TextTier(Lower(clean_selector(selector)), Lower(Strip(el.text)),
                  Lower(Strip(el.aria_label)))

\* len(text_lower.split()) if text_lower else len(aria_lower.split())
WordCount(text_lower, aria_lower) ==
    IF text_lower # "" THEN Len(Split(text_lower)) ELSE Len(Split(aria_lower))

\* The bonuses and penalties of the candidate loop.
Adjustments(el) ==
    (IF el.context # "none" THEN 30 ELSE 0)
    + (IF el.type = "submit" THEN 30 ELSE 0)
    + (IF Contains(Lower(el.class), "submit") \/ Contains(Lower(el.class), "primary")
       THEN 25 ELSE 0)
    + (IF WordCount(Lower(Strip(el.text)), Lower(Strip(el.aria_label))) >= 2
       THEN 20 ELSE 0)
    - (IF Contains(Lower(el.id), "toggle") \/ Contains(Lower(el.class), "toggle")
       THEN 100 ELSE 0)
    - (IF Contains(Lower(el.class), "checkbox") \/ Contains(Lower(el.class), "switch")
       THEN 100 ELSE 0)

\* The candidate loop keeps this element of the page.
Kept(selector, el) ==
    /\ el.button
    /\ ~(el.tag = "input" /\ el.type \in {"checkbox", "radio"})
    /\ ~SkippedAsToggle(el)
    /\ BaseScore(selector, el) > 0

\* The entry that the candidate loop appends for element k of the page.
ScoredEntry(selector, pg, k) ==
    [element |-> k,
     score |-> BaseScore(selector, pg[k]) + Adjustments(pg[k]),
     text |-> Strip(pg[k].text),
     aria_label |-> Strip(pg[k].aria_label),
     id |-> pg[k].id]

RECURSIVE ScoreFrom(_, _, _)
ScoreFrom(selector, pg, k) ==
    IF k > Len(pg) THEN <<>>
    ELSE IF Kept(selector, pg[k])
         THEN <<ScoredEntry(selector, pg, k)>> \o ScoreFrom(selector, pg, k + 1)
         ELSE ScoreFrom(selector, pg, k + 1)

\* scored_buttons as the candidate loop leaves it, in discovery order.
ScoreButtons(selector, pg) == ScoreFrom(selector, pg, 1)

toggle_words == <<"more", "less", "toggle", "switch">>

\* The semantic comparison's adjustment of one candidate (more than one
\* candidate matched).
CompareAdjust(pg, c) ==
    LET text_lower == Lower(c.text)
        aria_lower == Lower(c.aria_label)
        candidate_id == Lower(c.id)
        is_toggle ==
            \/ Contains(text_lower, "more") \/ Contains(aria_lower, "more")
            \/ Contains(candidate_id, "toggle") \/ Contains(candidate_id, "more")
        has_toggle_words ==
            \E i \in 1..Len(toggle_words) :
                Contains(text_lower, toggle_words[i]) \/ Contains(aria_lower, toggle_words[i])
        is_action_button ==
            /\ WordCount(text_lower, aria_lower) >= 2
            /\ ~has_toggle_words
            /\ ~EndsWith(text_lower, " more") /\ ~EndsWith(aria_lower, " more")
            /\ ~EndsWith(text_lower, " less") /\ ~EndsWith(aria_lower, " less")
    IN  [c EXCEPT !.score = @ - (IF is_toggle THEN 200 ELSE 0)
                              + (IF is_action_button THEN 100 ELSE 0)
                              + (IF pg[c.element].context = "dialog" THEN 50 ELSE 0)]

RECURSIVE InsertByScore(_, _)
\* seq (sorted by descending score) with c put after every entry whose
\* score is not lower: list.sort(key=score, reverse=True) is stable.
InsertByScore(seq, c) ==
    IF Len(seq) = 0 THEN <<c>>
    ELSE IF Head(seq).score >= c.score
         THEN <<Head(seq)>> \o InsertByScore(Tail(seq), c)
         ELSE <<c>> \o seq

RECURSIVE SortByScore(_)
SortByScore(seq) ==
    IF Len(seq) = 0 THEN <<>>
    ELSE InsertByScore(SortByScore(SubSeq(seq, 1, Len(seq) - 1)), seq[Len(seq)])

action_words == <<"add", "create", "new", "task", "issue", "project">>

nav_keywords == <<"skip", "main content", "accessibility", "navigation">>

\* semantic_tiebreaker of a tied candidate.
SemanticScore(sel_lower, c) ==
    LET btn_text == Lower(c.text)
        btn_aria == Lower(c.aria_label)
        common == WordSet(sel_lower) \cap WordSet(btn_text \o " " \o btn_aria)
    IN  (IF common # {}
         THEN Cardinality(common) * 10
              + (IF \E i \in 1..Len(action_words) :
                        /\ Contains(sel_lower, action_words[i])
                        /\ \/ Contains(btn_text, action_words[i])
                           \/ Contains(btn_aria, action_words[i])
                 THEN 50 ELSE 0)
         ELSE 0)
        - (IF \E i \in 1..Len(nav_keywords) :
                  Contains(btn_text, nav_keywords[i]) \/ Contains(btn_aria, nav_keywords[i])
           THEN 100 ELSE 0)

\* The sort key of the tie-breaker, (semantic_tiebreaker,
\* scored_buttons.index(x)), compared as tuples: a sorts before b under
\* reverse=True.
TieBefore(a, b) ==
    \/ a.semantic > b.semantic
    \/ a.semantic = b.semantic /\ a.index > b.index

RECURSIVE InsertByTie(_, _)
InsertByTie(seq, c) ==
    IF Len(seq) = 0 THEN <<c>>
    ELSE IF TieBefore(c, Head(seq))
         THEN <<c>> \o seq
         ELSE <<Head(seq)>> \o InsertByTie(Tail(seq), c)

RECURSIVE SortByTie(_)
SortByTie(seq) ==
    IF Len(seq) = 0 THEN <<>>
    ELSE InsertByTie(SortByTie(SubSeq(seq, 1, Len(seq) - 1)), seq[Len(seq)])

\* The subsequence of seq whose entries satisfy score = top (keep) or
\* score # top (~keep).
RECURSIVE FilterTop(_, _, _)
FilterTop(seq, top, keep) ==
    IF Len(seq) = 0 THEN <<>>
    ELSE IF (Head(seq).score = top) = keep
         THEN <<Head(seq)>> \o FilterTop(Tail(seq), top, keep)
         ELSE FilterTop(Tail(seq), top, keep)

\* The tie-breaker pass over the sorted list.
TieBreak(selector, sorted) ==
    LET top == sorted[1].score
        tied == FilterTop(sorted, top, TRUE)
        keyed == [i \in 1..Len(tied) |->
                    [entry |-> tied[i],
                     semantic |-> SemanticScore(Lower(clean_selector(selector)), tied[i]),
                     index |-> i]]
        resorted == SortByTie(keyed)
    IN  IF Len(tied) > 1
        THEN [i \in 1..Len(tied) |-> resorted[i].entry] \o FilterTop(sorted, top, FALSE)
        ELSE sorted

\* scored_buttons after the semantic comparison, the re-sort and the
\* tie-breaker (a single candidate is left as it is).
Ranked(selector, pg, scored) ==
    IF Len(scored) > 1
    THEN TieBreak(selector,
                  SortByScore([i \in 1..Len(scored) |-> CompareAdjust(pg, scored[i])]))
    ELSE scored

HasMoreLabel(c) == Contains(Lower(c.text), "more") \/ Contains(Lower(c.aria_label), "more")

\* best_match after the final safety check: the first ranked entry, or if
\* its label holds "more" the first later entry whose label does not.
BestMatch(ranked) ==
    IF HasMoreLabel(ranked[1])
       /\ \E j \in 2..Len(ranked) : ~HasMoreLabel(ranked[j])
    THEN ranked[CHOOSE j \in 2..Len(ranked) :
                    /\ ~HasMoreLabel(ranked[j])
                    /\ \A k \in 2..(j - 1) : HasMoreLabel(ranked[k])]
    ELSE ranked[1]

\* The first of the page positions in matching (document order), 0 for none.
FirstMatch(matching) ==
    IF matching = {} THEN 0
    ELSE CHOOSE k \in matching : \A j \in matching : k <= j

\* The browser's text selector engine: text='...' or text="..." matches an
\* element whose text is exactly the quoted string, text=... one whose text
\* holds the string, letter case ignored.
TextSelectorMatches(sel, el) ==
    LET body == Replace(sel, "text=", "")
    IN  IF Len(body) >= 2 /\ CharIn(SubSeq(body, 1, 1), "'\"")
        THEN Strip(el.text) = StripChars(body, "'\"")
        ELSE body # "" /\ Contains(Lower(el.text), Lower(body))

\* The element that page.click(selector) resolves to, 0 for none. A
\* selector without the text= prefix is read as CSS, and a bare phrase
\* names tags that the page does not hold.
PageClickMatch(selector, pg) ==
    IF is_text_selector(selector)
    THEN FirstMatch({k \in 1..Len(pg) : TextSelectorMatches(selector, pg[k])})
    ELSE 0

\* What the attribute selectors of the last strategy resolve to, in order:
\* [aria-label*=..], [data-testid*=..lower()], [title*=..],
\* button[aria-label*=..]; attribute values are matched with letter case.
AttributeMatches(selector, pg) ==
    LET clean == clean_selector(selector)
    IN  << FirstMatch({k \in 1..Len(pg) :
                          clean # "" /\ Contains(pg[k].aria_label, clean)}),
           FirstMatch({k \in 1..Len(pg) :
                          clean # "" /\ Contains(pg[k].testid, Lower(clean))}),
           FirstMatch({k \in 1..Len(pg) :
                          clean # "" /\ Contains(pg[k].title, clean)}),
           FirstMatch({k \in 1..Len(pg) :
                          /\ pg[k].tag = "button"
                          /\ clean # ""
                          /\ Contains(pg[k].aria_label, clean)}) >>

(***************************************************************************)
(* AgentB.execute_task and main: the state machine                         *)
(***************************************************************************)

VARIABLES
    plan,             \* task_plan["steps"], rewritten in place by repairs
    plan0,            \* the steps as the planner gave them
    pc,               \* where execute_task (then main) stands
    step_index,       \* 1-based index of the latest step the for loop took, 0 before
    retry_count,
    step_succeeded,
    captured_states,  \* self.captured_states
    dataset_saved,    \* save_dataset returned
    exit_code,        \* the exit code of the process, -1 while it runs
    outcome,          \* per step: Pending, Committed, Skipped or Failed
    execCalls,        \* execute_step invocations for the current step
    heurCalls,        \* _try_alternative_approach invocations, current step
    heurFound,        \* _try_alternative_approach returned True, current step
    oracleCalls,      \* _adapt_plan_from_page invocations, current step
    lastVerdict,      \* branch taken by the latest repair of the current step
    lastSuggestion,   \* the oracle's reply in that repair
    lastFailedStep,   \* the step as that repair found it
    lastNavOp,        \* navigator method called by the latest execute_step
    lastClick,        \* selector of the heuristic click that succeeded
    selector,         \* the argument of Navigator.click
    page,             \* the visible elements of the page, in document order
    click_pc,         \* where click stands
    scored_buttons,   \* click's list of scored candidates
    clicked,          \* index in page of the element clicked, 0 for none
    click_via,        \* the strategy that clicked
    prior,            \* ranked list and click of an earlier call, same arguments
    type_selector,    \* the selector argument of Navigator.type
    type_text,        \* the text argument of Navigator.type
    fields,           \* the visible fillable fields of the page, in document order
    fields0,          \* the fields as they were when type was called
    modal_open,       \* the page holds an element that the modal selectors find
    type_pc,          \* where type stands
    scored_elements,  \* type's list of scored contenteditable candidates
    typed,            \* index in fields of the field written into, 0 for none
    type_via,         \* the strategy that wrote
    task_query,       \* the argument of understand_task
    oracle,           \* the planning oracle's reply
    fixed_plan,       \* the plan as it enters the sanitizer
    task_plan,        \* the local plan of understand_task, then its result
    plan_pc,          \* where understand_task stands
    plan_via,         \* what produced the returned plan
    resanitized,      \* the sanitizer's output for its own output
    select_value,     \* the value argument of Navigator.select
    options,          \* the elements that the option queries can return
    select_pc,        \* where select stands
    dropdown_clicked, \* select clicked a trigger of the dropdown
    selected,         \* index in options of the element clicked, 0 for none
    select_via        \* the strategy that selected

agentVars ==
    <<plan, plan0, pc, step_index, retry_count, step_succeeded, captured_states,
      dataset_saved, exit_code, outcome, execCalls, heurCalls, heurFound,
      oracleCalls, lastVerdict, lastSuggestion, lastFailedStep, lastNavOp, lastClick>>

clickVars == <<selector, page, click_pc, scored_buttons, clicked, click_via, prior>>

typeVars ==
    <<type_selector, type_text, fields, fields0, modal_open, type_pc, scored_elements,
      typed, type_via>>

planVars ==
    <<task_query, oracle, fixed_plan, task_plan, plan_pc, plan_via, resanitized>>

selectVars ==
    <<select_value, options, select_pc, dropdown_clicked, selected, select_via>>

vars == <<agentVars, clickVars, typeVars, planVars, selectVars>>

\* What execute_task, click, type and understand_task each leave alone.
outsideTask == <<clickVars, typeVars, planVars, selectVars>>

outsideClick == <<agentVars, typeVars, planVars, selectVars>>

outsideType == <<agentVars, clickVars, planVars, selectVars>>

outsidePlan == <<agentVars, clickVars, typeVars, selectVars>>

outsideSelect == <<agentVars, clickVars, typeVars, planVars>>

NoSuggestion == MkSuggestion(FALSE, FALSE, FALSE, "", None)

NoStep == MkStep("", "", None, "", FALSE, FALSE)

NoPrior == [ranked |-> <<>>, clicked |-> 0, via |-> "idle"]

stepVars ==
    <<retry_count, step_succeeded, execCalls, heurCalls, heurFound, oracleCalls,
      lastVerdict, lastSuggestion, lastFailedStep, lastNavOp, lastClick>>

NoPlan == [app |-> "", startingUrl |-> "", steps |-> <<>>]

NoReply == [raises |-> FALSE, plan |-> NoPlan]

\* No understand_task call is followed.
PlanIdle ==
    /\ task_query = ""
    /\ oracle = NoReply
    /\ fixed_plan = NoPlan
    /\ task_plan = NoPlan
    /\ plan_pc = "idle"
    /\ plan_via = "none"
    /\ resanitized = NoPlan

\* No select call is followed.
SelectIdle ==
    /\ select_value = ""
    /\ options = <<>>
    /\ select_pc = "idle"
    /\ dropdown_clicked = FALSE
    /\ selected = 0
    /\ select_via = "none"

\* No type call is followed.
TypeIdle ==
    /\ type_selector = ""
    /\ type_text = ""
    /\ fields = <<>>
    /\ fields0 = <<>>
    /\ modal_open = FALSE
    /\ type_pc = "idle"
    /\ scored_elements = <<>>
    /\ typed = 0
    /\ type_via = "none"

\* No click call is followed.
ClickIdle ==
    /\ selector = ""
    /\ page = <<>>
    /\ click_pc = "idle"
    /\ scored_buttons = <<>>
    /\ clicked = 0
    /\ click_via = "none"
    /\ prior = NoPrior

Init ==
    /\ ClickIdle
    /\ TypeIdle
    /\ PlanIdle
    /\ SelectIdle
    /\ plan \in Plans
    /\ plan0 = plan
    /\ pc = "start"
    /\ step_index = 0
    /\ retry_count = 0
    /\ step_succeeded = FALSE
    /\ captured_states = <<>>
    /\ dataset_saved = FALSE
    /\ exit_code = -1
    /\ outcome = [i \in 1..Len(plan) |-> "Pending"]
    /\ execCalls = 0
    /\ heurCalls = 0
    /\ heurFound = FALSE
    /\ oracleCalls = 0
    /\ lastVerdict = "none"
    /\ lastSuggestion = NoSuggestion
    /\ lastFailedStep = NoStep
    /\ lastNavOp = "none"
    /\ lastClick = None

\* Where the for loop over the steps stands when it is entered: a plan
\* without steps falls through to the final capture.
ForLoopEntry == IF plan = <<>> THEN "final" ELSE "step_begin"

\* execute_task up to the for loop: the browser is initialized; with a
\* startingUrl the page is opened and the logged-in state captured. A
\* navigation that raises ends the task.
StartTask ==
    /\ pc = "start"
    /\ \E hasStartingUrl \in BOOLEAN, navigated \in BOOLEAN :
        IF ~hasStartingUrl
        THEN pc' = ForLoopEntry /\ UNCHANGED captured_states
        ELSE IF navigated
             THEN /\ pc' = ForLoopEntry
                  /\ captured_states' =
                        Append(captured_states, Capture("logged-in-state", "after-login"))
             ELSE pc' = "raised" /\ UNCHANGED captured_states
    /\ UNCHANGED <<plan, plan0, step_index, dataset_saved, exit_code, outcome>>
    /\ UNCHANGED stepVars
    /\ UNCHANGED outsideTask

\* The for loop takes the next step
\* of the plan: the capture before the action, then the retry loop's
\* variables are set.
BeginStep ==
    /\ pc = "step_begin"
    /\ step_index < Len(plan)
    /\ step_index' = step_index + 1
    /\ captured_states' =
          IF plan[step_index + 1].captureBefore
          THEN Append(captured_states,
                      Capture(plan[step_index + 1].description, "before"))
          ELSE captured_states
    /\ retry_count' = 0
    /\ step_succeeded' = FALSE
    /\ execCalls' = 0
    /\ heurCalls' = 0
    /\ heurFound' = FALSE
    /\ oracleCalls' = 0
    /\ lastVerdict' = "none"
    /\ lastSuggestion' = NoSuggestion
    /\ lastFailedStep' = NoStep
    /\ lastNavOp' = "none"
    /\ lastClick' = None
    /\ pc' = "attempt"
    /\ UNCHANGED <<plan, plan0, dataset_saved, exit_code, outcome>>
    /\ UNCHANGED outsideTask

\* navigator.click(None) raises at selector.startswith; every other
\* navigator call may succeed.
NavigatorMayReturn(step) == ~(NavOp(step) = "click" /\ step.target = None)

\* An iteration of the while loop in which execute_step returns: a skip or
\* unknown action returns at once, a navigator call returns normally.
ExecuteStepOk ==
    /\ pc = "attempt"
    /\ retry_count <= max_retries /\ ~step_succeeded
    /\ NavOp(plan[step_index]) = "none" \/ NavigatorMayReturn(plan[step_index])
    /\ execCalls' = execCalls + 1
    /\ lastNavOp' = NavOp(plan[step_index])
    /\ step_succeeded' = TRUE
    /\ outcome' = [outcome EXCEPT ![step_index] =
                      IF plan[step_index].action = "skip" THEN "Skipped" ELSE "Committed"]
    /\ pc' = "step_done"
    /\ UNCHANGED <<plan, plan0, step_index, retry_count, captured_states,
                   dataset_saved, exit_code, heurCalls, heurFound, oracleCalls,
                   lastVerdict, lastSuggestion, lastFailedStep, lastClick>>
    /\ UNCHANGED outsideTask

\* ExecuteStepFail with the final raise left out: the loop ends and the
\* for loop goes on after the third failure.
ExecuteStepFail_Swallowed ==
    /\ pc = "attempt"
    /\ retry_count <= max_retries /\ ~step_succeeded
    /\ NavOp(plan[step_index]) # "none"
    /\ execCalls' = execCalls + 1
    /\ lastNavOp' = NavOp(plan[step_index])
    /\ retry_count' = retry_count + 1
    /\ IF retry_count + 1 <= max_retries
       THEN /\ pc' = IF retry_count + 1 = 1 THEN "heuristic" ELSE "repair"
            /\ UNCHANGED outcome
       ELSE /\ pc' = "step_done"
            /\ outcome' = [outcome EXCEPT ![step_index] = "Failed"]
    /\ UNCHANGED <<plan, plan0, step_index, step_succeeded, captured_states,
                   dataset_saved, exit_code, heurCalls, heurFound, oracleCalls,
                   lastVerdict, lastSuggestion, lastFailedStep, lastClick>>
    /\ UNCHANGED outsideTask

\* ExecuteStepFail whose handler does not count the retry: the while test
\* finds the loop variables as they were.
ExecuteStepFail_RetryNotCounted ==
    /\ pc = "attempt"
    /\ retry_count <= max_retries /\ ~step_succeeded
    /\ NavOp(plan[step_index]) # "none"
    /\ lastNavOp' = NavOp(plan[step_index])
    /\ pc' = "attempt"
    /\ UNCHANGED <<plan, plan0, step_index, retry_count, step_succeeded,
                   captured_states, dataset_saved, exit_code, outcome, execCalls,
                   heurCalls, heurFound, oracleCalls, lastVerdict, lastSuggestion,
                   lastFailedStep, lastClick>>
    /\ UNCHANGED outsideTask

\* ExecuteStepFail that consults the repair oracle on the first retry
\* without trying the heuristic alternatives.
ExecuteStepFail_RepairsFirst ==
    /\ pc = "attempt"
    /\ retry_count <= max_retries /\ ~step_succeeded
    /\ NavOp(plan[step_index]) # "none"
    /\ execCalls' = execCalls + 1
    /\ lastNavOp' = NavOp(plan[step_index])
    /\ retry_count' = retry_count + 1
    /\ IF retry_count + 1 <= max_retries
       THEN /\ pc' = "repair"
            /\ UNCHANGED outcome
       ELSE /\ pc' = "raised"
            /\ outcome' = [outcome EXCEPT ![step_index] = "Failed"]
    /\ UNCHANGED <<plan, plan0, step_index, step_succeeded, captured_states,
                   dataset_saved, exit_code, heurCalls, heurFound, oracleCalls,
                   lastVerdict, lastSuggestion, lastFailedStep, lastClick>>
    /\ UNCHANGED outsideTask

\* An iteration of the while loop in which the navigator call of
\* execute_step raises: the handler counts the retry and picks the recovery
\* stage, or re-raises when the budget is spent.
ExecuteStepFail ==
    /\ pc = "attempt"
    /\ retry_count <= max_retries /\ ~step_succeeded
    /\ NavOp(plan[step_index]) # "none"
    /\ execCalls' = execCalls + 1
    /\ lastNavOp' = NavOp(plan[step_index])
    /\ retry_count' = retry_count + 1
    /\ IF retry_count + 1 <= max_retries
       THEN /\ pc' = IF retry_count + 1 = 1 THEN "heuristic" ELSE "repair"
            /\ UNCHANGED outcome
       ELSE /\ pc' = "raised"
            /\ outcome' = [outcome EXCEPT ![step_index] = "Failed"]
    /\ UNCHANGED <<plan, plan0, step_index, step_succeeded, captured_states,
                   dataset_saved, exit_code, heurCalls, heurFound, oracleCalls,
                   lastVerdict, lastSuggestion, lastFailedStep, lastClick>>
    /\ UNCHANGED outsideTask

\* TryAlternative without "step_succeeded = True; continue": after an
\* alternative click that succeeded the repair runs all the same.
TryAlternative_FallsThrough ==
    /\ pc = "heuristic"
    /\ heurCalls' = heurCalls + 1
    /\ LET step == plan[step_index]
       IN  IF step.action # "click"
           THEN /\ pc' = "repair"
                /\ UNCHANGED <<step_succeeded, outcome, heurFound, lastClick>>
           ELSE IF step.target = None
                THEN /\ pc' = "raised"
                     /\ outcome' = [outcome EXCEPT ![step_index] = "Failed"]
                     /\ UNCHANGED <<step_succeeded, heurFound, lastClick>>
                ELSE \E k \in 0..Len(alternatives(step.target)) :
                        IF k = 0
                        THEN /\ pc' = "repair"
                             /\ UNCHANGED <<step_succeeded, outcome, heurFound, lastClick>>
                        ELSE /\ lastClick' = alternatives(step.target)[k]
                             /\ heurFound' = TRUE
                             /\ pc' = "repair"
                             /\ UNCHANGED <<step_succeeded, outcome>>
    /\ UNCHANGED <<plan, plan0, step_index, retry_count, captured_states,
                   dataset_saved, exit_code, execCalls, oracleCalls, lastVerdict,
                   lastSuggestion, lastFailedStep, lastNavOp>>
    /\ UNCHANGED outsideTask

\* _try_alternative_approach on the first retry. Only a click step has
\* alternatives; target.replace raises for a step without target, outside
\* every try of the method and of the retry loop.
TryAlternative ==
    /\ pc = "heuristic"
    /\ heurCalls' = heurCalls + 1
    /\ LET step == plan[step_index]
       IN  IF step.action # "click"
           THEN /\ pc' = "repair"
                /\ UNCHANGED <<step_succeeded, outcome, heurFound, lastClick>>
           ELSE IF step.target = None
                THEN /\ pc' = "raised"
                     /\ outcome' = [outcome EXCEPT ![step_index] = "Failed"]
                     /\ UNCHANGED <<step_succeeded, heurFound, lastClick>>
                ELSE \E k \in 0..Len(alternatives(step.target)) :
                        IF k = 0
                        THEN /\ pc' = "repair"
                             /\ UNCHANGED <<step_succeeded, outcome, heurFound, lastClick>>
                        ELSE /\ lastClick' = alternatives(step.target)[k]
                             /\ heurFound' = TRUE
                             /\ step_succeeded' = TRUE
                             /\ outcome' = [outcome EXCEPT ![step_index] = "Committed"]
                             /\ pc' = "step_done"
    /\ UNCHANGED <<plan, plan0, step_index, retry_count, captured_states,
                   dataset_saved, exit_code, execCalls, oracleCalls, lastVerdict,
                   lastSuggestion, lastFailedStep, lastNavOp>>
    /\ UNCHANGED outsideTask

\* _adapt_plan_from_page for the failed step, then back to the while test.
AdaptPlan ==
    /\ pc = "repair"
    /\ \E sug \in Suggestions :
        /\ plan' = [plan EXCEPT ![step_index] = AdaptedStep(@, sug)]
        /\ lastVerdict' = RepairVerdict(plan[step_index], sug)
        /\ lastSuggestion' = sug
    /\ lastFailedStep' = plan[step_index]
    /\ oracleCalls' = oracleCalls + 1
    /\ pc' = "attempt"
    /\ UNCHANGED <<plan0, step_index, retry_count, step_succeeded, captured_states,
                   dataset_saved, exit_code, outcome, execCalls, heurCalls, heurFound,
                   lastNavOp, lastClick>>
    /\ UNCHANGED outsideTask

\* After the while loop: the capture after the action, then the next step.
FinishStep ==
    /\ pc = "step_done"
    /\ captured_states' =
          IF plan[step_index].captureAfter
          THEN Append(captured_states, Capture(plan[step_index].description, "after"))
          ELSE captured_states
    /\ pc' = IF step_index = Len(plan) THEN "final" ELSE "step_begin"
    /\ UNCHANGED <<plan, plan0, step_index, dataset_saved, exit_code, outcome>>
    /\ UNCHANGED stepVars
    /\ UNCHANGED outsideTask

\* save_dataset reads state['name'] of every entry: a None entry raises.
SaveDatasetRaises(states) == \E i \in 1..Len(states) : states[i] = None

\* After the for loop: the final capture and save_dataset.
FinalCapture ==
    /\ pc = "final"
    /\ captured_states' = Append(captured_states, Capture("final-state", "final"))
    /\ dataset_saved' = ~SaveDatasetRaises(captured_states')
    /\ pc' = IF SaveDatasetRaises(captured_states') THEN "raised" ELSE "done"
    /\ UNCHANGED <<plan, plan0, step_index, exit_code, outcome>>
    /\ UNCHANGED stepVars
    /\ UNCHANGED outsideTask

\* main: exit code 1 when execute_task raised, else a normal exit.
MainExit ==
    /\ pc \in {"done", "raised"}
    /\ exit_code' = IF pc = "raised" THEN 1 ELSE 0
    /\ pc' = "exited"
    /\ UNCHANGED <<plan, plan0, step_index, captured_states, dataset_saved, outcome>>
    /\ UNCHANGED stepVars
    /\ UNCHANGED outsideTask

Next ==
    \/ StartTask
    \/ BeginStep
    \/ ExecuteStepOk
    \/ ExecuteStepFail
    \/ TryAlternative
    \/ AdaptPlan
    \/ FinishStep
    \/ FinalCapture
    \/ MainExit

Spec == Init /\ [][Next]_vars

\* _try_alternative_approach comes back to execute_task: the step of
\* TryAlternative, told by where it leaves the position.
HeuristicsReturn == pc = "heuristic" /\ pc' \in {"repair", "step_done", "raised"}

\* _adapt_plan_from_page comes back to execute_task: the step of AdaptPlan.
RepairReturns == pc = "repair" /\ pc' = "attempt"

\* Every navigator and oracle call returns, normally or with an exception:
\* an attempt of the retry loop, the heuristic alternatives and the repair
\* each come to their end.
SpecLive ==
    /\ Init /\ [][Next]_vars
    /\ WF_vars(ExecuteStepOk \/ ExecuteStepFail)
    /\ WF_pc(HeuristicsReturn)
    /\ WF_pc(RepairReturns)

(***************************************************************************)
(* Navigator.click: the strategies in order                                *)
(***************************************************************************)

\* No task is executed.
AgentIdle ==
    /\ plan = <<>>
    /\ plan0 = <<>>
    /\ pc = "idle"
    /\ step_index = 0
    /\ retry_count = 0
    /\ step_succeeded = FALSE
    /\ captured_states = <<>>
    /\ dataset_saved = FALSE
    /\ exit_code = -1
    /\ outcome = <<>>
    /\ execCalls = 0
    /\ heurCalls = 0
    /\ heurFound = FALSE
    /\ oracleCalls = 0
    /\ lastVerdict = "none"
    /\ lastSuggestion = NoSuggestion
    /\ lastFailedStep = NoStep
    /\ lastNavOp = "none"
    /\ lastClick = None

InitClick ==
    /\ AgentIdle
    /\ TypeIdle
    /\ PlanIdle
    /\ SelectIdle
    /\ selector \in ClickTargets
    /\ page \in Pages
    /\ click_pc = "start"
    /\ scored_buttons = <<>>
    /\ clicked = 0
    /\ click_via = "none"
    /\ prior = NoPrior

\* Strategies 1 and 2, skipped for an ambiguous or aria-label selector:
\* page.click(selector), then page.click("text=" + clean_selector). Either
\* call clicks the first element that the selector resolves to, or raises
\* (no such element, or the element is not actionable within the timeout).
ClickDirect ==
    /\ click_pc = "start"
    /\ IF is_ambiguous(selector) \/ is_aria_label_selector(selector)
       THEN click_pc' = "score" /\ UNCHANGED <<clicked, click_via>>
       ELSE \/ /\ PageClickMatch(selector, page) # 0
               /\ clicked' = PageClickMatch(selector, page)
               /\ click_via' = "selector"
               /\ click_pc' = "returned"
            \/ /\ PageClickMatch("text=" \o clean_selector(selector), page) # 0
               /\ clicked' = PageClickMatch("text=" \o clean_selector(selector), page)
               /\ click_via' = "text"
               /\ click_pc' = "returned"
            \/ click_pc' = "score" /\ UNCHANGED <<clicked, click_via>>
    /\ UNCHANGED <<selector, page, scored_buttons>>
    /\ UNCHANGED outsideClick
    /\ UNCHANGED prior

\* ScoreCandidates with the list of an earlier call not reset: the new
\* candidates are appended to it.
ScoreCandidates_KeepsEarlierList ==
    /\ click_pc = "score"
    /\ scored_buttons' = prior.ranked \o ScoreButtons(selector, page)
    /\ click_pc' = "rank"
    /\ UNCHANGED <<selector, page, clicked, click_via>>
    /\ UNCHANGED outsideClick
    /\ UNCHANGED prior

\* Strategy 5, the candidate loop.
ScoreCandidates ==
    /\ click_pc = "score"
    /\ scored_buttons' = ScoreButtons(selector, page)
    /\ click_pc' = "rank"
    /\ UNCHANGED <<selector, page, clicked, click_via>>
    /\ UNCHANGED outsideClick
    /\ UNCHANGED prior

\* Strategy 5, after the loop: with candidates, rank them and click the
\* best match (a click that raises leads to strategy 6); without, go on to
\* strategy 6.
RankAndClick ==
    /\ click_pc = "rank"
    /\ IF scored_buttons = <<>>
       THEN /\ click_pc' = "fallback"
            /\ UNCHANGED <<scored_buttons, clicked, click_via>>
       ELSE /\ scored_buttons' = Ranked(selector, page, scored_buttons)
            /\ \/ /\ clicked' = BestMatch(scored_buttons').element
                  /\ click_via' = "scoring"
                  /\ click_pc' = "returned"
               \/ /\ click_pc' = "fallback"
                  /\ UNCHANGED <<clicked, click_via>>
    /\ UNCHANGED <<selector, page>>
    /\ UNCHANGED outsideClick
    /\ UNCHANGED prior

\* Strategy 6: the attribute selectors in order; the first one whose
\* element is clicked without raising ends click, else click raises.
AttributeFallback ==
    /\ click_pc = "fallback"
    /\ \/ \E k \in 1..Len(AttributeMatches(selector, page)) :
            /\ AttributeMatches(selector, page)[k] # 0
            /\ clicked' = AttributeMatches(selector, page)[k]
            /\ click_via' = "attribute"
            /\ click_pc' = "returned"
       \/ click_pc' = "raised" /\ UNCHANGED <<clicked, click_via>>
    /\ UNCHANGED <<selector, page, scored_buttons>>
    /\ UNCHANGED outsideClick
    /\ UNCHANGED prior

NextClick ==
    \/ ClickDirect
    \/ ScoreCandidates
    \/ RankAndClick
    \/ AttributeFallback

SpecClick == InitClick /\ [][NextClick]_vars

\* A second call of click with the same selector on the same page, as the
\* retry loop of execute_task makes after a call; the first call's ranked
\* list and click are remembered.
ClickAgain ==
    /\ click_pc \in {"returned", "raised"}
    /\ prior = NoPrior
    /\ prior' = [ranked |-> scored_buttons, clicked |-> clicked, via |-> click_via]
    /\ click_pc' = "start"
    /\ scored_buttons' = <<>>
    /\ clicked' = 0
    /\ click_via' = "none"
    /\ UNCHANGED <<selector, page>>
    /\ UNCHANGED outsideClick

NextClickTwice ==
    \/ NextClick
    \/ ClickAgain

SpecClickTwice == InitClick /\ [][NextClickTwice]_vars

(***************************************************************************)
(* Navigator.type: fillable fields, candidate scoring, the strategies      *)
(***************************************************************************)

\* Longest page (number of visible fillable fields) that InitType draws.
MaxFields == 2

\* A visible, enabled fillable field: tag "ce" (contenteditable or
\* role=textbox), "input" or "textarea"; its aria-label, id, placeholder
\* and name attributes; its content (text content, or value); whether it
\* lies inside the element that the modal selectors find.
MkField(tg, ar, id, ph, nm, cur, md) ==
    [tag |-> tg, aria_label |-> ar, id |-> id, placeholder |-> ph, name |-> nm,
     current |-> cur, in_modal |-> md]

\* The fields that pages are drawn from.
FieldPool ==
    { MkField("ce", "Issue title", "", "", "", "", TRUE),
      MkField("ce", "Title", "", "", "", "Old title", TRUE),
      MkField("ce", "Description", "", "Add a title or text", "", "", TRUE),
      MkField("ce", "Description", "title-editor", "", "", "", FALSE),
      MkField("ce", "Subtitle", "", "", "", "Bug", FALSE),
      MkField("input", "Issue title", "", "", "", "", FALSE),
      MkField("input", "Description", "", "Describe the Bug", "", "", FALSE),
      MkField("input", "", "", "Search", "q", "", FALSE),
      MkField("ce", "", "", "", "", "", TRUE),
      MkField("textarea", "Title", "", "", "", "", TRUE) }

FieldPages == UNION { [1..n -> FieldPool] : n \in 1..MaxFields }

\* The selectors and texts that type is called with.
TypeTargets == {"Title", "name=title", "Description"}

TypeTexts == {"Bug", "Old title"}

\* clean_selector of type
type_clean_selector(sel) ==
    StripChars(Replace(Replace(Replace(sel, "name=", ""), "id=", ""), "textarea=", ""),
               "'\"")

WordChars == LowerChars \o UpperChars \o "0123456789_"

\* The regex \b between s[i - 1] and s[i] (positions past the ends count
\* as non-word characters).
WordBoundaryAt(s, i) ==
    LET before == i > 1 /\ CharIn(SubSeq(s, i - 1, i - 1), WordChars)
        after == i <= Len(s) /\ CharIn(SubSeq(s, i, i), WordChars)
    IN  before # after

\* re.search(r'\b' + re.escape(word) + r'\b', s)
WholeWordIn(word, s) ==
    \E i \in 1..(Len(s) - Len(word) + 1) :
        /\ SubSeq(s, i, i + Len(word) - 1) = word
        /\ WordBoundaryAt(s, i)
        /\ WordBoundaryAt(s, i + Len(word))

\* The match tier of a contenteditable candidate in strategy 0, 0 for none.
FieldTier(sel_lower, f) ==
    LET aria_label_lower == Lower(Strip(f.aria_label))
    IN  IF sel_lower = aria_label_lower THEN 1000
        ELSE IF Contains(aria_label_lower, sel_lower)
             THEN (IF WholeWordIn(sel_lower, aria_label_lower) THEN 800 ELSE 500)
        ELSE IF aria_label_lower # "" /\ StartsWith(sel_lower, aria_label_lower) THEN 400
        ELSE IF StartsWith(aria_label_lower, sel_lower) THEN 600
        ELSE IF Contains(Lower(f.id), sel_lower) THEN 300
        ELSE IF Contains(Lower(f.placeholder), sel_lower) THEN 200
        ELSE 0

\* The bonus for an empty field, the penalty for one holding other text.
ContentAdjust(f, text) ==
    IF Strip(f.current) = "" THEN 200
    ELSE IF Lower(Strip(f.current)) # Lower(text) THEN 0 - 500
    ELSE 0

\* score of a contenteditable candidate in strategy 0.
FieldScore(sel, text, f, modal) ==
    FieldTier(Lower(type_clean_selector(sel)), f) + ContentAdjust(f, text)
    + (IF modal THEN 100 ELSE 0)

\* ce_elements: the contenteditable fields, those of the modal if one is
\* found, as positions in the page.
CeElements(flds, modal) ==
    {k \in 1..Len(flds) : flds[k].tag = "ce" /\ (modal => flds[k].in_modal)}

\* scored_elements of strategy 0 from position k on, in document order.
RECURSIVE ScoreFieldsFrom(_, _, _, _, _)
ScoreFieldsFrom(sel, text, flds, modal, k) ==
    IF k > Len(flds) THEN <<>>
    ELSE IF k \in CeElements(flds, modal)
            /\ FieldTier(Lower(type_clean_selector(sel)), flds[k]) > 0
         THEN << [element |-> k,
                  score |-> FieldScore(sel, text, flds[k], modal),
                  aria_label |-> Strip(flds[k].aria_label),
                  current_text |-> Strip(flds[k].current)] >>
              \o ScoreFieldsFrom(sel, text, flds, modal, k + 1)
         ELSE ScoreFieldsFrom(sel, text, flds, modal, k + 1)

\* scored_elements after scored_elements.sort(key=score, reverse=True).
ScoredElements(sel, text, flds, modal) ==
    SortByScore(ScoreFieldsFrom(sel, text, flds, modal, 1))

\* The content of a contenteditable field after type wrote into it: other
\* text is cleared first, then the text is typed.
TypedInto(f, text) ==
    IF Strip(f.current) # "" /\ Lower(Strip(f.current)) # Lower(text)
    THEN [f EXCEPT !.current = text]
    ELSE [f EXCEPT !.current = f.current \o text]

\* The content of an input or textarea after page.fill.
Filled(f, text) == [f EXCEPT !.current = text]

\* What the selectors of strategies 1 to 4 resolve to, in order (0: the
\* fill raises). The direct selector is read as CSS, a bare word being a
\* tag name; attribute values are matched with letter case.
FillSelectorMatches(sel, text, flds) ==
    LET clean == type_clean_selector(sel)
        Inputs == {k \in 1..Len(flds) : flds[k].tag = "input"}
        NameIs == FirstMatch({k \in Inputs : clean # "" /\ flds[k].name = clean})
        NameHas == FirstMatch({k \in Inputs : clean # "" /\ Contains(flds[k].name, clean)})
        IdIs == FirstMatch({k \in Inputs : clean # "" /\ flds[k].id = clean})
    IN  << FirstMatch({k \in 1..Len(flds) :
                          /\ flds[k].tag \in {"input", "textarea"}
                          /\ Lower(sel) = flds[k].tag}),
           NameIs, NameHas,
           IdIs, FirstMatch({k \in Inputs : clean # "" /\ Contains(flds[k].id, clean)}),
           FirstMatch({k \in Inputs : clean # "" /\ Contains(flds[k].placeholder, clean)}),
           FirstMatch({k \in Inputs : clean # "" /\ Contains(flds[k].aria_label, clean)}),
           FirstMatch({k \in Inputs : text # "" /\ Contains(flds[k].placeholder, text)}),
           FirstMatch({k \in Inputs : text # "" /\ Contains(flds[k].aria_label, text)}) >>

\* The first entry of a sequence of resolutions that is not 0, 0 for none.
FirstResolved(matches) ==
    IF \E i \in 1..Len(matches) : matches[i] # 0
    THEN matches[CHOOSE i \in 1..Len(matches) :
                     matches[i] # 0 /\ \A j \in 1..(i - 1) : matches[j] = 0]
    ELSE 0

common_field_words ==
    <<"name", "title", "description", "text", "input", "value", "field", "content">>

HasFieldWord(s_lower, words) == \E i \in 1..Len(words) : Contains(s_lower, words[i])

\* score of an input or textarea in _find_inputs_by_context (the page
\* script reports neither value nor inModal, so every input counts as
\* empty and outside a modal).
ContextScore(f, search_lower, text_lower) ==
    5
    + (IF f.name # "" /\ Contains(Lower(f.name), search_lower) THEN 10 ELSE 0)
    + (IF Contains(Lower(f.name), "name") \/ Contains(Lower(f.name), "title")
       THEN 5 ELSE 0)
    + (IF f.placeholder # ""
          /\ \/ Contains(Lower(f.placeholder), search_lower)
             \/ Contains(Lower(f.placeholder), text_lower)
       THEN 8 ELSE 0)
    + (IF HasFieldWord(Lower(f.placeholder), common_field_words) THEN 4 ELSE 0)
    + (IF f.aria_label # "" /\ Contains(Lower(f.aria_label), search_lower)
       THEN 12 ELSE 0)
    + (IF HasFieldWord(Lower(f.aria_label), common_field_words) THEN 8 ELSE 0)
    + (IF f.id # "" /\ Contains(Lower(f.id), search_lower) THEN 6 ELSE 0)

\* selector = None of _find_inputs_by_context.
NoSelector == [attr |-> "none", tag |-> "", value |-> ""]

\* selector that _find_inputs_by_context builds for an input or textarea,
\* NoSelector when it has neither name, aria-label nor id.
ContextSelector(f) ==
    IF f.name # "" THEN [attr |-> "name", tag |-> f.tag, value |-> f.name]
    ELSE IF f.aria_label # ""
         THEN [attr |-> "aria-label", tag |-> "input", value |-> f.aria_label]
    ELSE IF f.id # "" THEN [attr |-> "id", tag |-> f.tag, value |-> f.id]
    ELSE NoSelector

RECURSIVE ContextFrom(_, _, _, _)
ContextFrom(sel, text, flds, k) ==
    IF k > Len(flds) THEN <<>>
    ELSE IF flds[k].tag \in {"input", "textarea"} /\ ContextSelector(flds[k]) # NoSelector
         THEN << [selector |-> ContextSelector(flds[k]),
                  score |-> ContextScore(flds[k], Lower(type_clean_selector(sel)),
                                         Lower(text))] >>
              \o ContextFrom(sel, text, flds, k + 1)
         ELSE ContextFrom(sel, text, flds, k + 1)

\* _find_inputs_by_context: the three best scored inputs.
find_inputs_by_context(sel, text, flds) ==
    LET sorted == SortByScore(ContextFrom(sel, text, flds, 1))
    IN  SubSeq(sorted, 1, IF Len(sorted) < 3 THEN Len(sorted) ELSE 3)

\* The field that page.fill resolves a built selector to, 0 for none.
ResolveContext(s, flds) ==
    FirstMatch({k \in 1..Len(flds) :
                   /\ flds[k].tag = s.tag
                   /\ IF s.attr = "name" THEN flds[k].name = s.value
                      ELSE IF s.attr = "id" THEN flds[k].id = s.value
                      ELSE flds[k].aria_label = s.value})

\* What the selectors of the context strategy resolve to, in order.
ContextMatches(sel, text, flds) ==
    LET inputs == find_inputs_by_context(sel, text, flds)
    IN  [i \in 1..Len(inputs) |-> ResolveContext(inputs[i].selector, flds)]

\* What the textarea selectors resolve to, in order.
TextareaMatches(sel, flds) ==
    LET clean == type_clean_selector(sel)
        Areas == {k \in 1..Len(flds) : flds[k].tag = "textarea"}
    IN  << FirstMatch({k \in Areas : clean # "" /\ flds[k].name = clean}),
           FirstMatch({k \in Areas : clean # "" /\ Contains(flds[k].name, clean)}),
           FirstMatch({k \in Areas : clean # "" /\ Contains(flds[k].placeholder, clean)}),
           FirstMatch({k \in Areas : clean # "" /\ Contains(flds[k].aria_label, clean)}) >>

\* The match tier of a contenteditable candidate in strategy 7, 0 for none.
ModalFieldTier(sel_lower, f) ==
    LET aria_label_lower == Lower(Strip(f.aria_label))
    IN  IF sel_lower = aria_label_lower THEN 1000
        ELSE IF Contains(aria_label_lower, sel_lower)
             THEN (IF WholeWordIn(sel_lower, aria_label_lower) THEN 800 ELSE 500)
        ELSE IF StartsWith(aria_label_lower, sel_lower) THEN 600
        ELSE IF StartsWith(sel_lower, aria_label_lower) THEN 400
        ELSE 0

\* scored_ce of strategy 7 from position k on: the contenteditable fields
\* of the modal that match.
RECURSIVE ScoreModalFrom(_, _, _, _, _)
ScoreModalFrom(sel, text, flds, modal, k) ==
    IF k > Len(flds) THEN <<>>
    ELSE IF /\ modal
            /\ flds[k].tag = "ce"
            /\ flds[k].in_modal
            /\ ModalFieldTier(Lower(type_clean_selector(sel)), flds[k]) > 0
         THEN << [element |-> k,
                  score |-> ModalFieldTier(Lower(type_clean_selector(sel)), flds[k])
                            + ContentAdjust(flds[k], text),
                  aria_label |-> Strip(flds[k].aria_label)] >>
              \o ScoreModalFrom(sel, text, flds, modal, k + 1)
         ELSE ScoreModalFrom(sel, text, flds, modal, k + 1)

\* scored_ce after its sort.
ScoredModal(sel, text, flds, modal) ==
    SortByScore(ScoreModalFrom(sel, text, flds, modal, 1))

\* modal_inputs: the inputs and textareas of the modal, or of the whole
\* page when there are none.
ModalInputs(flds, modal) ==
    LET all == {k \in 1..Len(flds) : flds[k].tag \in {"input", "textarea"}}
        inside == {k \in all : modal /\ flds[k].in_modal}
    IN  IF inside # {} THEN inside ELSE all

input_field_words ==
    <<"name", "title", "description", "text", "input", "value", "field">>

\* matches of strategy 7's input loop.
InputMatches(f, search_lower) ==
    \/ Contains(Lower(f.name), search_lower)
    \/ Contains(Lower(f.id), search_lower)
    \/ Contains(Lower(f.placeholder), search_lower)
    \/ Contains(Lower(f.aria_label), search_lower)
    \/ HasFieldWord(Lower(f.placeholder), input_field_words)

\* The input that strategy 7's loop fills: the first empty one that
\* matches, 0 for none.
FirstEmptyInput(sel, flds, modal) ==
    FirstMatch({k \in ModalInputs(flds, modal) :
                   /\ flds[k].current = ""
                   /\ \/ InputMatches(flds[k], Lower(type_clean_selector(sel)))
                      \/ type_clean_selector(sel) = ""})

InitType ==
    /\ AgentIdle
    /\ ClickIdle
    /\ PlanIdle
    /\ SelectIdle
    /\ type_selector \in TypeTargets
    /\ type_text \in TypeTexts
    /\ fields \in FieldPages
    /\ fields0 = fields
    /\ modal_open \in BOOLEAN
    /\ (\E k \in 1..Len(fields) : fields[k].in_modal) => modal_open
    /\ type_pc = "start"
    /\ scored_elements = <<>>
    /\ typed = 0
    /\ type_via = "none"

\* Strategy 0: score the contenteditable fields and type into the best.
TypeContentEditable ==
    /\ type_pc = "start"
    /\ scored_elements' = ScoredElements(type_selector, type_text, fields, modal_open)
    /\ IF scored_elements' # <<>>
       THEN /\ typed' = scored_elements'[1].element
            /\ fields' = [fields EXCEPT ![typed'] = TypedInto(@, type_text)]
            /\ type_via' = "contenteditable"
            /\ type_pc' = "returned"
       ELSE /\ type_pc' = "selectors"
            /\ UNCHANGED <<fields, typed, type_via>>
    /\ UNCHANGED <<type_selector, type_text, fields0, modal_open>>
    /\ UNCHANGED outsideType

\* Strategies 1 to 4: page.fill with the direct selector, then the name,
\* id, placeholder and aria-label selectors; the first that resolves fills.
TypeBySelectors ==
    /\ type_pc = "selectors"
    /\ LET k == FirstResolved(FillSelectorMatches(type_selector, type_text, fields))
       IN  IF k # 0
           THEN /\ typed' = k
                /\ fields' = [fields EXCEPT ![k] = Filled(@, type_text)]
                /\ type_via' = "selector"
                /\ type_pc' = "returned"
           ELSE /\ type_pc' = "context"
                /\ UNCHANGED <<fields, typed, type_via>>
    /\ UNCHANGED <<type_selector, type_text, fields0, modal_open, scored_elements>>
    /\ UNCHANGED outsideType

\* Strategy 6: the inputs of _find_inputs_by_context, best first; the
\* first whose selector resolves is filled.
TypeByContext ==
    /\ type_pc = "context"
    /\ LET k == FirstResolved(ContextMatches(type_selector, type_text, fields))
       IN  IF k # 0
           THEN /\ typed' = k
                /\ fields' = [fields EXCEPT ![k] = Filled(@, type_text)]
                /\ type_via' = "context"
                /\ type_pc' = "returned"
           ELSE /\ type_pc' = "textarea"
                /\ UNCHANGED <<fields, typed, type_via>>
    /\ UNCHANGED <<type_selector, type_text, fields0, modal_open, scored_elements>>
    /\ UNCHANGED outsideType

\* The textarea selectors.
TypeTextarea ==
    /\ type_pc = "textarea"
    /\ LET k == FirstResolved(TextareaMatches(type_selector, fields))
       IN  IF k # 0
           THEN /\ typed' = k
                /\ fields' = [fields EXCEPT ![k] = Filled(@, type_text)]
                /\ type_via' = "textarea"
                /\ type_pc' = "returned"
           ELSE /\ type_pc' = "modal"
                /\ UNCHANGED <<fields, typed, type_via>>
    /\ UNCHANGED <<type_selector, type_text, fields0, modal_open, scored_elements>>
    /\ UNCHANGED outsideType

\* Strategy 7: the best contenteditable field of the modal, else the first
\* empty input that matches, else type raises.
TypeFirstVisible ==
    /\ type_pc = "modal"
    /\ LET scored_ce == ScoredModal(type_selector, type_text, fields, modal_open)
           k == FirstEmptyInput(type_selector, fields, modal_open)
       IN  IF scored_ce # <<>>
           THEN /\ typed' = scored_ce[1].element
                /\ fields' = [fields EXCEPT ![typed'] = TypedInto(@, type_text)]
                /\ type_via' = "modal-contenteditable"
                /\ type_pc' = "returned"
           ELSE IF k # 0
           THEN /\ typed' = k
                /\ fields' = [fields EXCEPT ![k] = Filled(@, type_text)]
                /\ type_via' = "visible-input"
                /\ type_pc' = "returned"
           ELSE /\ type_pc' = "raised"
                /\ UNCHANGED <<fields, typed, type_via>>
    /\ UNCHANGED <<type_selector, type_text, fields0, modal_open, scored_elements>>
    /\ UNCHANGED outsideType

NextType ==
    \/ TypeContentEditable
    \/ TypeBySelectors
    \/ TypeByContext
    \/ TypeTextarea
    \/ TypeFirstVisible

SpecType == InitType /\ [][NextType]_vars

(***************************************************************************)
(* AgentB.understand_task: validation, URL fixes and the plan sanitizer    *)
(***************************************************************************)

\* Longest steps list of an oracle plan that InitPlan draws.
MaxPlanSteps == 2

\* A JSON null (None) as the value of a key that is present.
Null == "<null>"

\* any(keyword in s for keyword in keywords)
AnyKeywordIn(s, keywords) == \E i \in 1..Len(keywords) : Contains(s, keywords[i])

\* step.get(key, "").lower() for a value that is a string or missing.
GetLower(v) == IF v = None THEN "" ELSE Lower(v)

\* A step of the planning oracle's JSON: target and value may be missing
\* (None) or null (Null).
MkRawStep(d, a, t, v) == [description |-> d, action |-> a, target |-> t, value |-> v]

\* The steps that oracle plans are drawn from.
RawStepPool ==
    { MkRawStep("Log in to Linear", "click", "text=Log in", None),
      MkRawStep("Enter the issue title", "type", "Title", "Fix login page"),
      MkRawStep("Select the assignee", "click", "Assignee", None),
      MkRawStep("Click Create issue", "click", "text=Create issue", None),
      MkRawStep("Set the status", "select", "Status", "Done"),
      MkRawStep("Open the projects page", "navigate", "Projects", None),
      MkRawStep("Go to the team page", "navigate", "https://app.linear.app/team", None),
      MkRawStep("Press Enter", "click", Null, None) }

RawPlans == UNION { [1..n -> RawStepPool] : n \in 0..MaxPlanSteps }

\* The app and startingUrl of oracle plans.
PlanHeads ==
    { [app |-> "linear", startingUrl |-> "https://linear.app/login"],
      [app |-> "asana", startingUrl |-> "https://app.asana.com/-/login"],
      [app |-> "asana", startingUrl |-> "https://app.asana.com/log/signinin"],
      [app |-> "notion", startingUrl |-> "https://www.notion.so"] }

\* The task texts.
TaskQueries ==
    { "Create an issue in Linear, assign it as urgent and assign to Alice",
      "Create an issue in Linear with assignee Bob",
      "Create an issue in Linear and assign it as high priority",
      "Filter tasks in Asana by status" }

\* _fix_url
fix_url(url, current_task) ==
    LET u == IF Contains(url, "app.linear.app")
             THEN Replace(url, "app.linear.app", "linear.app") ELSE url
    IN  IF StartsWith(u, "/") /\ Contains(Lower(current_task), "linear")
        THEN "https://linear.app" \o u
        ELSE u

\* The loop of understand_task over the steps: a navigate step whose target
\* is a selector becomes a click, the target of any other is fixed as a URL.
FixStep(step, current_task) ==
    IF step.action = "navigate" /\ step.target \notin {None, Null, ""}
    THEN IF IsSelectorNotUrl(step.target)
         THEN [step EXCEPT !.action = "click"]
         ELSE [step EXCEPT !.target = fix_url(step.target, current_task)]
    ELSE step

login_keywords == <<"login", "sign in", "signin", "authenticate", "log in">>

\* is_login_step
is_login_step(step) ==
    LET description == GetLower(step.description)
        target == GetLower(step.target)
        action == GetLower(step.action)
    IN  \/ AnyKeywordIn(description, login_keywords)
        \/ AnyKeywordIn(target, login_keywords)
        \/ action = "click" /\ AnyKeywordIn(target, login_keywords)

\* filtered_steps of _filter_login_steps from position k on.
RECURSIVE FilterLoginFrom(_, _)
FilterLoginFrom(steps, k) ==
    IF k > Len(steps) THEN <<>>
    ELSE IF is_login_step(steps[k]) THEN FilterLoginFrom(steps, k + 1)
         ELSE <<steps[k]>> \o FilterLoginFrom(steps, k + 1)

\* The rewrite of a login-page startingUrl.
FixStartingUrl(app, startingUrl) ==
    IF Contains(Lower(startingUrl), "login") \/ Contains(Lower(startingUrl), "signin")
    THEN IF Lower(app) = "linear" THEN "https://linear.app/projects"
         ELSE IF Lower(app) = "notion" THEN "https://www.notion.so"
         ELSE Replace(Replace(startingUrl, "/login", ""), "/signin", "")
    ELSE startingUrl

\* A .lower() of _filter_login_steps meets a null.
LoginFilterRaises(p) ==
    \E k \in 1..Len(p.steps) :
        Null \in {p.steps[k].description, p.steps[k].target, p.steps[k].action}

\* A filter that marks a login step as skipped and keeps it in the list.
filter_login_steps_MarksSkipped(p) ==
    [p EXCEPT !.steps = [k \in 1..Len(p.steps) |->
                           IF is_login_step(p.steps[k])
                           THEN [p.steps[k] EXCEPT !.action = "skip",
                                                   !.target = "step-skipped"]
                           ELSE p.steps[k]],
              !.startingUrl = FixStartingUrl(p.app, p.startingUrl)]

\* _filter_login_steps, for a plan on which it does not raise.
filter_login_steps(p) ==
    IF p.steps = <<>> THEN p
    ELSE [p EXCEPT !.steps = FilterLoginFrom(p.steps, 1),
                   !.startingUrl = FixStartingUrl(p.app, p.startingUrl)]

\* optional_step_keywords without its "assignee" entry, which the loop skips.
optional_step_keywords ==
    << [field_name |-> "status", keywords |-> <<"status", "set status", "change status">>],
       [field_name |-> "label", keywords |-> <<"label", "labels", "add label", "tag">>],
       [field_name |-> "due date", keywords |-> <<"due date", "due", "deadline">>],
       [field_name |-> "milestone", keywords |-> <<"milestone">>] >>

task_mentions_user_assignment(query) ==
    /\ AnyKeywordIn(Lower(query),
           <<"assign to", "assign to a", "assign to user", "assign to me",
             "assignee", "assigned to", "user assignment">>)
    /\ ~AnyKeywordIn(Lower(query),
           <<"assign it as", "assign as", "assign priority", "assign status">>)

\* The step names the assignee in its description, target or value.
AssigneeStep(step) ==
    \/ Contains(GetLower(step.description), "assignee")
    \/ Contains(GetLower(step.target), "assignee")
    \/ Contains(GetLower(step.value), "assignee")

is_about_field(step, f) ==
    LET description == GetLower(step.description)
        target == GetLower(step.target)
        value == GetLower(step.value)
    IN  \/ Contains(description, f.field_name)
        \/ Contains(target, f.field_name)
        \/ Contains(value, f.field_name)
        \/ AnyKeywordIn(description, f.keywords)
        \/ AnyKeywordIn(target, f.keywords)
        \/ AnyKeywordIn(value, f.keywords)

task_mentions_field(query, f) == AnyKeywordIn(Lower(query), f.keywords)

\* should_include at the end of the loop body of _filter_unmentioned_steps.
should_include(step, query) ==
    /\ ~(AssigneeStep(step) /\ ~task_mentions_user_assignment(query))
    /\ \A i \in 1..Len(optional_step_keywords) :
           ~(/\ is_about_field(step, optional_step_keywords[i])
             /\ ~task_mentions_field(query, optional_step_keywords[i]))

\* filtered_steps of _filter_unmentioned_steps from position k on.
RECURSIVE FilterUnmentionedFrom(_, _, _)
FilterUnmentionedFrom(steps, query, k) ==
    IF k > Len(steps) THEN <<>>
    ELSE IF should_include(steps[k], query)
         THEN <<steps[k]>> \o FilterUnmentionedFrom(steps, query, k + 1)
         ELSE FilterUnmentionedFrom(steps, query, k + 1)

\* A .lower() of _filter_unmentioned_steps meets a null.
UnmentionedFilterRaises(p) ==
    \E k \in 1..Len(p.steps) :
        Null \in {p.steps[k].description, p.steps[k].target,
                  p.steps[k].action, p.steps[k].value}

\* _filter_unmentioned_steps, for a plan on which it does not raise.
filter_unmentioned_steps(p, query) ==
    IF p.steps = <<>> THEN p
    ELSE [p EXCEPT !.steps = FilterUnmentionedFrom(p.steps, query, 1)]

\* The plan sanitizer: the two filters in the order understand_task calls them.
SanitizerRaises(p) ==
    \/ LoginFilterRaises(p)
    \/ UnmentionedFilterRaises(filter_login_steps(p))

Sanitize(p, query) == filter_unmentioned_steps(filter_login_steps(p), query)

\* create_fallback_plan, for a task that names Linear or Notion.
create_fallback_plan(query) ==
    IF Contains(Lower(query), "linear")
    THEN [app |-> "linear", startingUrl |-> "https://linear.app/login",
          steps |-> << MkRawStep("Navigate to Linear", "navigate", "https://linear.app/login", None),
                       MkRawStep("Wait for page load", "wait", "body", None) >>]
    ELSE [app |-> "notion", startingUrl |-> "https://notion.so",
          steps |-> << MkRawStep("Navigate to Notion", "navigate", "https://notion.so", None),
                       MkRawStep("Wait for page load", "wait", "body", None) >>]

FallbackRaises(query) ==
    ~Contains(Lower(query), "linear") /\ ~Contains(Lower(query), "notion")

\* The replies of the planning oracle: a request or a json.loads that raises,
\* or a plan.
OracleReplies ==
    { [raises |-> TRUE, plan |-> NoPlan] } \cup
    { [raises |-> FALSE,
       plan |-> [app |-> h.app, startingUrl |-> h.startingUrl, steps |-> st]] :
         h \in PlanHeads, st \in RawPlans }

InitPlan ==
    /\ AgentIdle
    /\ ClickIdle
    /\ TypeIdle
    /\ SelectIdle
    /\ task_query \in TaskQueries
    /\ oracle \in OracleReplies
    /\ fixed_plan = NoPlan
    /\ task_plan = NoPlan
    /\ plan_pc = "start"
    /\ plan_via = "none"
    /\ resanitized = NoPlan

\* The request, json.loads and the validation of the steps.
ValidatePlan ==
    /\ plan_pc = "start"
    /\ IF oracle.raises \/ oracle.plan.steps = <<>>
       THEN plan_pc' = "fallback" /\ UNCHANGED task_plan
       ELSE plan_pc' = "fix" /\ task_plan' = oracle.plan
    /\ UNCHANGED <<task_query, oracle, fixed_plan, plan_via, resanitized>>
    /\ UNCHANGED outsidePlan

\* _fix_url on the startingUrl and the loop over the steps.
FixUrls ==
    /\ plan_pc = "fix"
    /\ fixed_plan' =
           [task_plan EXCEPT
              !.startingUrl = fix_url(task_plan.startingUrl, task_query),
              !.steps = [k \in 1..Len(task_plan.steps) |->
                           FixStep(task_plan.steps[k], task_query)]]
    /\ task_plan' = fixed_plan'
    /\ plan_pc' = "login"
    /\ UNCHANGED <<task_query, oracle, plan_via, resanitized>>
    /\ UNCHANGED outsidePlan

\* plan = self._filter_login_steps(plan)
FilterLoginSteps ==
    /\ plan_pc = "login"
    /\ IF LoginFilterRaises(task_plan)
       THEN plan_pc' = "fallback" /\ UNCHANGED task_plan
       ELSE plan_pc' = "unmentioned" /\ task_plan' = filter_login_steps(task_plan)
    /\ UNCHANGED <<task_query, oracle, fixed_plan, plan_via, resanitized>>
    /\ UNCHANGED outsidePlan

\* plan = self._filter_unmentioned_steps(plan, task_query); return plan
FilterUnmentionedSteps ==
    /\ plan_pc = "unmentioned"
    /\ IF UnmentionedFilterRaises(task_plan)
       THEN plan_pc' = "fallback" /\ UNCHANGED <<task_plan, plan_via>>
       ELSE /\ plan_pc' = "returned"
            /\ plan_via' = "oracle"
            /\ task_plan' = filter_unmentioned_steps(task_plan, task_query)
    /\ UNCHANGED <<task_query, oracle, fixed_plan, resanitized>>
    /\ UNCHANGED outsidePlan

\* except Exception: return self.create_fallback_plan(task_query)
CreateFallbackPlan ==
    /\ plan_pc = "fallback"
    /\ IF FallbackRaises(task_query)
       THEN plan_pc' = "raised" /\ UNCHANGED <<task_plan, plan_via>>
       ELSE /\ plan_pc' = "returned"
            /\ plan_via' = "fallback"
            /\ task_plan' = create_fallback_plan(task_query)
    /\ UNCHANGED <<task_query, oracle, fixed_plan, resanitized>>
    /\ UNCHANGED outsidePlan

NextPlan ==
    \/ ValidatePlan
    \/ FixUrls
    \/ FilterLoginSteps
    \/ FilterUnmentionedSteps
    \/ CreateFallbackPlan

SpecPlan == InitPlan /\ [][NextPlan]_vars

\* The sanitizer is applied to the plan it produced.
SanitizeAgain ==
    /\ plan_pc = "returned"
    /\ plan_via = "oracle"
    /\ ~SanitizerRaises(task_plan)
    /\ resanitized' = Sanitize(task_plan, task_query)
    /\ plan_pc' = "resanitized"
    /\ UNCHANGED <<task_query, oracle, fixed_plan, task_plan, plan_via>>
    /\ UNCHANGED outsidePlan

NextPlanTwice ==
    \/ NextPlan
    \/ SanitizeAgain

SpecPlanTwice == InitPlan /\ [][NextPlanTwice]_vars

(***************************************************************************)
(* Navigator.select: the option of a custom dropdown                       *)
(***************************************************************************)

\* Longest list of elements that InitSelect draws.
MaxOptions == 2

\* An element that the option queries can return: kind "option" has
\* role="option", "li-option" is an li with that role, "li" an li without
\* it, "menuitem" has a class with "MenuItem", "other" is any other
\* element; text is its text content, icon_aria the aria-label of an
\* element inside it.
MkOption(kind, text, visible, data_value, id, icon_aria) ==
    [kind |-> kind, text |-> text, visible |-> visible,
     data_value |-> data_value, id |-> id, icon_aria |-> icon_aria]

OptionPool ==
    { MkOption("option", "High", TRUE, "", "", ""),
      MkOption("option", "", TRUE, "", "", "No priority"),
      MkOption("option", "Medium", FALSE, "medium", "", ""),
      MkOption("li-option", "Highest", TRUE, "", "", ""),
      MkOption("menuitem", "Hi", TRUE, "", "", ""),
      MkOption("li", "Low", TRUE, "", "", "Medium priority"),
      MkOption("other", "Status", TRUE, "", "high-contrast", ""),
      MkOption("option", "Low", TRUE, "", "", "") }

\* The elements of the page in document order, as they are once the
\* dropdown had its time to open.
OptionLists == UNION { [1..n -> OptionPool] : n \in 1..MaxOptions }

\* The values that select is called with.
SelectValues == {"High", "medium", "Urgent"}

\* One character of str.upper().
UpperChar(c) ==
    IF \E i \in 1..Len(LowerChars) : SubSeq(LowerChars, i, i) = c
    THEN LET i == CHOOSE j \in 1..Len(LowerChars) : SubSeq(LowerChars, j, j) = c
         IN  SubSeq(UpperChars, i, i)
    ELSE c

\* str.capitalize()
Capitalize(s) ==
    IF Len(s) = 0 THEN ""
    ELSE UpperChar(SubSeq(s, 1, 1)) \o Lower(SubSeq(s, 2, Len(s)))

\* :has-text("value") of the selector engine: the text holds the value,
\* letter case ignored.
HasText(text, value) == Contains(Lower(text), Lower(value))

\* What the option_selectors resolve to, in order: for each the first
\* element of the page that it matches (0 for none). The selectors with
\* value.capitalize() and value.title() inside has-text or text= match what
\* the selector with value matches, and "[role=option] >> text=" lies
\* inside an option that the first selector matches; they are left out.
OptionSelectorMatches(value, opts) ==
    LET All == 1..Len(opts)
    IN  << FirstMatch({k \in All : /\ opts[k].kind \in {"option", "li-option"}
                                  /\ HasText(opts[k].text, value)}),
           FirstMatch({k \in All : /\ opts[k].kind = "li-option"
                                  /\ HasText(opts[k].text, value)}),
           FirstMatch({k \in All : /\ opts[k].kind \in {"li-option", "li"}
                                  /\ HasText(opts[k].text, value)}),
           FirstMatch({k \in All : opts[k].data_value = value}),
           FirstMatch({k \in All : opts[k].data_value = Lower(value)}),
           FirstMatch({k \in All : Contains(opts[k].id, Lower(value))}) >>

\* The loop over option_selectors: the first selector whose element is
\* there and visible has it clicked (0: none).
RECURSIVE FirstVisible(_, _, _)
FirstVisible(matches, opts, i) ==
    IF i > Len(matches) THEN 0
    ELSE IF matches[i] # 0 /\ opts[matches[i]].visible THEN matches[i]
    ELSE FirstVisible(matches, opts, i + 1)

\* The text comparison of the loop over all options.
TextMatchesValue(text_content, value) ==
    LET value_lower == Lower(value)
        text_lower == Lower(Strip(text_content))
    IN  \/ value_lower = text_lower
        \/ Contains(text_lower, value_lower)
        \/ Contains(value_lower, text_lower)
        \/ value_lower = "high" /\ Contains(text_lower, "high")

\* The first visible element of the given kinds whose text matches.
FirstTextMatch(value, opts, kinds) ==
    FirstMatch({k \in 1..Len(opts) : /\ opts[k].kind \in kinds
                                     /\ opts[k].visible
                                     /\ TextMatchesValue(opts[k].text, value)})

\* The aria-label route: the first element whose aria-label holds the value
\* (then value.capitalize()), and the option or li around it; 0 when there
\* is none or the click on it raises.
AriaOptionMatch(value, opts) ==
    LET WithValue == {k \in 1..Len(opts) : /\ opts[k].icon_aria # ""
                                           /\ Contains(opts[k].icon_aria, value)}
        WithCapital == {k \in 1..Len(opts) : /\ opts[k].icon_aria # ""
                                             /\ Contains(opts[k].icon_aria, Capitalize(value))}
        k == IF WithValue # {} THEN FirstMatch(WithValue) ELSE FirstMatch(WithCapital)
    IN  IF k # 0 /\ opts[k].kind \in {"option", "li-option", "li"} /\ opts[k].visible
        THEN k ELSE 0

InitSelect ==
    /\ AgentIdle
    /\ ClickIdle
    /\ TypeIdle
    /\ PlanIdle
    /\ select_value \in SelectValues
    /\ options \in OptionLists
    /\ select_pc = "start"
    /\ dropdown_clicked = FALSE
    /\ selected = 0
    /\ select_via = "none"

\* page.select_option: a standard select element takes the value, or the
\* call raises and the custom dropdown is tried.
SelectStandard ==
    /\ select_pc = "start"
    /\ \E standard \in BOOLEAN :
          IF standard
          THEN select_pc' = "returned" /\ select_via' = "native"
          ELSE select_pc' = "trigger" /\ UNCHANGED select_via
    /\ UNCHANGED <<select_value, options, dropdown_clicked, selected>>
    /\ UNCHANGED outsideSelect

\* Steps 1 and 2: a trigger of the dropdown is found and clicked, or none.
ClickTrigger ==
    /\ select_pc = "trigger"
    /\ dropdown_clicked' \in BOOLEAN
    /\ select_pc' = "selectors"
    /\ UNCHANGED <<select_value, options, selected, select_via>>
    /\ UNCHANGED outsideSelect

\* Step 3, the loop over option_selectors.
SelectBySelectors ==
    /\ select_pc = "selectors"
    /\ LET k == FirstVisible(OptionSelectorMatches(select_value, options), options, 1)
       IN  IF k # 0
           THEN /\ selected' = k
                /\ select_via' = "selector"
                /\ select_pc' = "returned"
           ELSE /\ select_pc' = "text"
                /\ UNCHANGED <<selected, select_via>>
    /\ UNCHANGED <<select_value, options, dropdown_clicked>>
    /\ UNCHANGED outsideSelect

\* Step 3, the loop over all options with the text comparison.
SelectByText ==
    /\ select_pc = "text"
    /\ LET k == FirstTextMatch(select_value, options, {"option", "li-option", "menuitem"})
       IN  IF k # 0
           THEN /\ selected' = k
                /\ select_via' = "text"
                /\ select_pc' = "returned"
           ELSE /\ select_pc' = "aria"
                /\ UNCHANGED <<selected, select_via>>
    /\ UNCHANGED <<select_value, options, dropdown_clicked>>
    /\ UNCHANGED outsideSelect

\* Step 3, the option around an element with a matching aria-label.
SelectByAria ==
    /\ select_pc = "aria"
    /\ LET k == AriaOptionMatch(select_value, options)
       IN  IF k # 0
           THEN /\ selected' = k
                /\ select_via' = "aria"
                /\ select_pc' = "returned"
           ELSE /\ select_pc' = "direct"
                /\ UNCHANGED <<selected, select_via>>
    /\ UNCHANGED <<select_value, options, dropdown_clicked>>
    /\ UNCHANGED outsideSelect

\* Without a clicked trigger the options are searched once more; then the
\* failure is raised.
SelectDirect ==
    /\ select_pc = "direct"
    /\ LET k == IF dropdown_clicked THEN 0
               ELSE FirstMatch({j \in 1..Len(options) :
                       /\ options[j].kind \in {"option", "li-option"}
                       /\ options[j].visible
                       /\ LET value_lower == Lower(select_value)
                              text_lower == Lower(Strip(options[j].text))
                          IN  \/ value_lower = text_lower
                              \/ Contains(text_lower, value_lower)
                              \/ Contains(value_lower, text_lower)})
       IN  IF k # 0
           THEN /\ selected' = k
                /\ select_via' = "direct"
                /\ select_pc' = "returned"
           ELSE /\ select_pc' = "raised"
                /\ UNCHANGED <<selected, select_via>>
    /\ UNCHANGED <<select_value, options, dropdown_clicked>>
    /\ UNCHANGED outsideSelect

NextSelect ==
    \/ SelectStandard
    \/ ClickTrigger
    \/ SelectBySelectors
    \/ SelectByText
    \/ SelectByAria
    \/ SelectDirect

SpecSelect == InitSelect /\ [][NextSelect]_vars

(***************************************************************************)
(* Properties of the retry / repair loop                                   *)
(***************************************************************************)

\* The latest repair of the current step got a reply that asks for no skip
\* and carries a string target.
RepairSuggestedTarget ==
    /\ oracleCalls > 0
    /\ ~lastSuggestion.raises
    /\ ~lastSuggestion.skip
    /\ lastSuggestion.hasTarget
    /\ lastSuggestion.target # None

\* The field concepts whose confusion the guardrail is to prevent, in
\* either direction.
MismatchPairs ==
    { <<"assignee", "title">>, <<"title", "assignee">>,
      <<"assignee", "description">>, <<"description", "assignee">>,
      <<"assignee", "name">>, <<"name", "assignee">>,
      <<"title", "description">>, <<"description", "title">> }

\* The step's target names one concept of a pair and the suggested target
\* names the other.
CrossConcept(stepTarget, suggested) ==
    \E p \in MismatchPairs :
        /\ Contains(Lower(stepTarget), p[1])
        /\ Contains(Lower(suggested), p[2])

\* The current step is marked as a no-op.
MarkedSkip ==
    /\ plan[step_index].action = "skip"
    /\ plan[step_index].target = "step-skipped"

\* C1: a suggestion (skip = false) whose target names the other concept of a
\* mismatch pair (assignee/title, assignee/description, assignee/name,
\* title/description, either direction) is never written into the step; the
\* step is marked skip instead.
C1_MismatchNeverCommitted ==
    (RepairSuggestedTarget
        /\ CrossConcept(StepTargetOrEmpty(lastFailedStep), lastSuggestion.target))
    => MarkedSkip

\* C1 restricted to the ordered pairs of explicit_mismatches: those
\* suggestions are never committed.
C1_ListedPairsRejected ==
    (RepairSuggestedTarget
        /\ ExplicitMismatch(Strip(Lower(StepTargetOrEmpty(lastFailedStep))),
                            Lower(Strip(lastSuggestion.target))))
    => MarkedSkip

\* C1, the case that the code misses: the step names "name", the suggestion
\* names "assignee", and the suggestion is committed.
C1_NameToAssigneeCommitted ==
    /\ RepairSuggestedTarget
    /\ Contains(Lower(StepTargetOrEmpty(lastFailedStep)), "name")
    /\ Contains(Lower(lastSuggestion.target), "assignee")
    /\ ~Contains(Lower(lastSuggestion.target), "name")
    /\ plan[step_index].target = Strip(lastSuggestion.target)
    /\ outcome[step_index] = "Committed"

\* C2: once a suggestion has failed the semantic validation (explicit
\* mismatch, or no relation to the step's target), the step is marked skip,
\* its target is not the suggested one, the next attempt calls no navigator
\* method, no further recovery stage runs, and the step ends Skipped,
\* neither Committed nor Failed.
C2_RejectedSuggestionSkips ==
    lastVerdict \in {"explicit_mismatch", "no_semantic_match"}
    => /\ MarkedSkip
       /\ plan[step_index].target # Strip(lastSuggestion.target)
       /\ pc \notin {"heuristic", "repair"}
       /\ IF pc = "attempt"
          THEN outcome[step_index] = "Pending" /\ NavOp(plan[step_index]) = "none"
          ELSE outcome[step_index] = "Skipped"

C2_Witness ==
    /\ lastVerdict = "no_semantic_match"
    /\ lastFailedStep.target = "Name input"
    /\ lastSuggestion.target = "Description"
    /\ outcome[step_index] = "Skipped"
    /\ pc = "step_done"

\* C3: after a repair whose oracle call failed, the step is marked skip (so
\* it is not attempted again unchanged) and does not reach Failed.
C3_OracleFailureSkips ==
    lastVerdict = "oracle_error"
    => /\ MarkedSkip
       /\ outcome[step_index] # "Failed"

\* C3, what the code does: the step is left unchanged, attempted again as
\* it was, and reaches Failed.
C3_OracleFailureRetriedUnchanged ==
    /\ lastVerdict = "oracle_error"
    /\ plan[step_index] = lastFailedStep
    /\ execCalls = max_retries + 1
    /\ outcome[step_index] = "Failed"

\* C4: execute_step runs at most 3 times for a step, and the step is Failed
\* only when the third attempt has failed.
C4_RetryBudget ==
    /\ execCalls <= max_retries + 1
    /\ \A i \in 1..Len(plan) :
          outcome[i] = "Failed"
          => i = step_index /\ execCalls = max_retries + 1 /\ retry_count = max_retries + 1

\* C4, what the code does for a click step without target: Failed after one
\* attempt, from the heuristic stage.
C4_FailedAfterOneAttempt ==
    /\ step_index >= 1
    /\ outcome[step_index] = "Failed"
    /\ execCalls = 1
    /\ heurCalls = 1
    /\ plan[step_index].target = None

\* C5: if the direct attempt fails and a heuristic alternative click
\* succeeds on the first retry, the step is Committed after exactly two
\* attempts (direct + heuristic), with no repair, no rewrite of the step and
\* no further execute_step.
C5_HeuristicSuccessCommits ==
    heurFound
    => /\ outcome[step_index] = "Committed"
       /\ execCalls = 1
       /\ heurCalls = 1
       /\ retry_count + 1 = 2
       /\ oracleCalls = 0
       /\ plan[step_index] = plan0[step_index]
       /\ pc \notin {"attempt", "heuristic", "repair"}

\* The quote-style alternative of a quoted text selector succeeded and the
\* loop went on.
C5_Witness ==
    /\ heurFound
    /\ plan0[step_index].target = "text='Create issue'"
    /\ lastClick = "text=\"Create issue\""
    /\ outcome[step_index] = "Committed"
    /\ pc = "step_begin"

\* C6: steps run in plan order, step n+1 only after step n is Committed or
\* Skipped; after a Failed step no later step runs, there is no final
\* capture and no dataset save, execute_task raises and the exit code is 1.
C6_SequentialAndAbort ==
    \A i \in 1..Len(plan) :
        /\ i < step_index => outcome[i] \in {"Committed", "Skipped"}
        /\ i > step_index => outcome[i] = "Pending"
        /\ outcome[i] = "Failed"
           => /\ i = step_index
              /\ pc \in {"raised", "exited"}
              /\ pc = "exited" => exit_code = 1
              /\ ~dataset_saved
              /\ \A k \in 1..Len(captured_states) : captured_states[k] # "final"

C6_Witness ==
    /\ Len(plan) = 2
    /\ outcome[1] = "Failed"
    /\ outcome[2] = "Pending"
    /\ execCalls = max_retries + 1
    /\ pc = "exited"
    /\ exit_code = 1

\* C7: a reply with skip = true marks the step as a no-op whatever target
\* and action it suggests; the next attempt cannot fail and calls no
\* navigator method (so it cannot raise), the step ends Skipped with that
\* attempt and the loop goes on.
C7_SkipHonoured ==
    (oracleCalls > 0 /\ ~lastSuggestion.raises /\ lastSuggestion.skip)
    => /\ MarkedSkip
       /\ pc \notin {"heuristic", "repair"}
       /\ IF pc = "attempt"
          THEN /\ outcome[step_index] = "Pending"
               /\ NavOp(plan[step_index]) = "none"
          ELSE /\ outcome[step_index] = "Skipped"
               /\ lastNavOp = "none"
               /\ execCalls = oracleCalls + 1

C7_Witness ==
    /\ oracleCalls > 0
    /\ ~lastSuggestion.raises
    /\ lastSuggestion.skip
    /\ lastSuggestion.target = "Assign user"
    /\ lastFailedStep.target = "Assignee"
    /\ outcome[step_index] = "Skipped"
    /\ step_index < Len(plan)
    /\ pc = "step_begin"

(***************************************************************************)
(* Properties of Navigator.click                                           *)
(***************************************************************************)

\* The toggle / checkbox patterns: a label of at most 3 words holding
\* "more", an id or class holding "toggle", an id holding "more", a class
\* holding "checkbox" or "switch".
TogglePattern(el) ==
    \/ HasMore(Lower(Strip(el.text)))
    \/ HasMore(Lower(Strip(el.aria_label)))
    \/ Contains(Lower(el.id), "toggle") \/ Contains(Lower(el.class), "toggle")
    \/ Contains(Lower(el.id), "more")
    \/ Contains(Lower(el.class), "checkbox") \/ Contains(Lower(el.class), "switch")

\* Some candidate of the button query matches no toggle pattern and has a
\* base score of at least 40.
CleanCandidateExists ==
    \E j \in 1..Len(page) :
        /\ page[j].button
        /\ ~TogglePattern(page[j])
        /\ BaseScore(selector, page[j]) >= 40

\* C8: the scoring path never commits to a candidate that matches a toggle /
\* checkbox pattern while a candidate that matches none has a base score of
\* at least 40.
C8_NoToggleOverCleanCandidate ==
    (click_pc = "returned" /\ click_via = "scoring")
    => ~(TogglePattern(page[clicked]) /\ CleanCandidateExists)

\* C8, what the code does: a button whose class holds "toggle" outranks a
\* plain button with a base score of 40.
C8_ToggleClassWins ==
    /\ click_pc = "returned"
    /\ click_via = "scoring"
    /\ selector = "Create"
    /\ Contains(Lower(page[clicked].class), "toggle")
    /\ \E j \in 1..Len(page) :
          /\ page[j].text = "Recreate"
          /\ ~TogglePattern(page[j])
          /\ BaseScore(selector, page[j]) = 40

CreateMoreToggle ==
    MkElement("Create more", "", "create-more-toggle", "switch", "", "button", TRUE, "dialog")

CreateIssueButton ==
    MkElement("Create issue", "", "submit-btn", "btn primary", "submit", "button", TRUE, "dialog")

\* The page holds the "Create more" toggle and the "Create issue" submit
\* button of the dialog, and click is called with "text=Create more".
ToggleScenario ==
    /\ selector = "text=Create more"
    /\ \E i \in 1..Len(page) : page[i] = CreateMoreToggle
    /\ \E j \in 1..Len(page) : page[j] = CreateIssueButton

\* C9: in the toggle scenario click ends with the "Create issue" button
\* clicked, never the toggle, whichever strategy clicks.
C9_ActionButtonNotToggle ==
    (ToggleScenario /\ click_pc \in {"returned", "raised"})
    => clicked # 0 /\ page[clicked] = CreateIssueButton

\* C9, what the code does: the direct selector match clicks the toggle.
C9_ToggleClicked ==
    /\ ToggleScenario
    /\ click_pc = "returned"
    /\ click_via = "selector"
    /\ page[clicked] = CreateMoreToggle

\* C9, what the code does when the direct matches raise: no candidate
\* survives scoring and click raises; no strategy clicks "Create issue".
C9_NeverActionButton ==
    ToggleScenario => (clicked = 0 \/ page[clicked] # CreateIssueButton)

\* The ranked list was computed and is empty.
RankedEmpty ==
    /\ scored_buttons = <<>>
    /\ click_pc \in {"fallback", "raised"} \/ click_via = "attribute"

\* C10: with an empty ranked list click clicks nothing and ends raising.
C10_EmptyRankingFails ==
    RankedEmpty => clicked = 0 /\ click_pc # "returned"

\* C10, what the code does: the attribute selectors of strategy 6 click an
\* element that the candidate loop had skipped as a toggle.
C10_FallbackClicksSkippedToggle ==
    /\ RankedEmpty
    /\ click_pc = "returned"
    /\ click_via = "attribute"
    /\ selector = "aria-label=Create"
    /\ SkippedAsToggle(page[clicked])

\* A label gives textual evidence for the normalized target: it is not
\* empty and equals the target, is in a prefix relation or a substring
\* relation with it, or shares significant words with it.
TextualEvidence(sel_lower, label_lower) ==
    /\ label_lower # ""
    /\ \/ sel_lower = label_lower
       \/ StartsWith(label_lower, sel_lower) \/ StartsWith(sel_lower, label_lower)
       \/ share_significant_words(sel_lower, label_lower)
       \/ Contains(label_lower, sel_lower) \/ Contains(sel_lower, label_lower)

\* The evidence of a scored candidate: its accessible label for an
\* aria-label selector, its visible text or accessible label otherwise.
HasEvidence(c) ==
    LET sel_lower == Lower(clean_selector(selector))
    IN  IF is_aria_label_selector(selector)
        THEN TextualEvidence(sel_lower, Lower(c.aria_label))
        ELSE \/ TextualEvidence(sel_lower, Lower(c.text))
             \/ TextualEvidence(sel_lower, Lower(c.aria_label))

\* C11: every candidate kept in the scored list has textual evidence for
\* the target, and the scoring path never clicks a candidate without it.
C11_KeptHasEvidence ==
    /\ \A i \in 1..Len(scored_buttons) : HasEvidence(scored_buttons[i])
    /\ (click_pc = "returned" /\ click_via = "scoring")
       => \E i \in 1..Len(scored_buttons) :
             /\ scored_buttons[i].element = clicked
             /\ HasEvidence(scored_buttons[i])

\* C11, what the code does: for an aria-label selector a button without
\* accessible label is kept (the selector starts with the empty label) and
\* the scoring path clicks it.
C11_UnlabelledClicked ==
    /\ click_pc = "returned"
    /\ click_via = "scoring"
    /\ is_aria_label_selector(selector)
    /\ Strip(page[clicked].aria_label) = ""
    /\ BaseScore(selector, page[clicked]) = 75

\* The secondary semantic-overlap score of ranked entry i.
Secondary(i) == SemanticScore(Lower(clean_selector(selector)), scored_buttons[i])

\* Ranked entries i and j both have the top score.
TiedAtTop(i, j) ==
    /\ scored_buttons[i].score = scored_buttons[1].score
    /\ scored_buttons[j].score = scored_buttons[1].score

\* The scoring path has ranked the candidates and clicked one.
ScoringClicked == click_pc = "returned" /\ click_via = "scoring"

\* C12: candidates that share the top score are ordered by descending
\* secondary score, those equal on it too keep their discovery order, and
\* the earliest-discovered of them is the one clicked.
C12_TiesKeepDiscoveryOrder ==
    ScoringClicked =>
        \A i, j \in 1..Len(scored_buttons) :
            (i < j /\ TiedAtTop(i, j)) =>
                /\ Secondary(i) >= Secondary(j)
                /\ Secondary(i) = Secondary(j)
                   => /\ scored_buttons[i].element < scored_buttons[j].element
                      /\ clicked # scored_buttons[j].element

\* C12, the half that the code keeps: the tied candidates are ordered by
\* descending secondary score.
C12_TiesBySecondaryScore ==
    ScoringClicked =>
        \A i, j \in 1..Len(scored_buttons) :
            (i < j /\ TiedAtTop(i, j)) => Secondary(i) >= Secondary(j)

\* C12, what the code does: of two candidates equal on both scores the
\* later-discovered one is ranked first and clicked.
C12_LatestOfTiedClicked ==
    /\ ScoringClicked
    /\ Len(scored_buttons) = 2
    /\ TiedAtTop(1, 2)
    /\ Secondary(1) = Secondary(2)
    /\ scored_buttons[1].element = 2
    /\ scored_buttons[2].element = 1
    /\ clicked = 2

FilledVersusEmpty(a, b) ==
    /\ Strip(fields0[a.element].current) # ""
    /\ Lower(Strip(fields0[a.element].current)) # Lower(type_text)
    /\ Strip(fields0[b.element].current) = ""

\* The match tier of a scored candidate of strategy 0.
TierOf(c) == FieldTier(Lower(type_clean_selector(type_selector)), fields0[c.element])

\* C14: of two matched fields, one holding text other than the value to
\* type and one empty with an equal or weaker match, the former scores
\* strictly lower and is never the one selected.
C14_FilledScoresBelowEmpty ==
    \A i, j \in 1..Len(scored_elements) :
        ( /\ FilledVersusEmpty(scored_elements[i], scored_elements[j])
          /\ TierOf(scored_elements[j]) <= TierOf(scored_elements[i]) )
        => /\ scored_elements[i].score < scored_elements[j].score
           /\ type_via = "contenteditable" => typed # scored_elements[i].element

\* C14, what the code does: a field with an exact label match (1000) that
\* holds other text outscores an empty field matched by its placeholder
\* (200), and its content is replaced.
C14_FilledFieldSelected ==
    /\ type_pc = "returned"
    /\ type_via = "contenteditable"
    /\ Len(scored_elements) = 2
    /\ FilledVersusEmpty(scored_elements[1], scored_elements[2])
    /\ TierOf(scored_elements[1]) = 1000
    /\ TierOf(scored_elements[2]) = 200
    /\ scored_elements[1].score > scored_elements[2].score
    /\ typed = scored_elements[1].element
    /\ fields[typed].current = type_text

\* C14, the scoring of strategy 7, whose tiers lie between 400 and 1000:
\* there the field holding other text always scores strictly lower.
C14_ModalScoringHolds ==
    LET scored_ce == ScoredModal(type_selector, type_text, fields0, modal_open)
    IN  \A i, j \in 1..Len(scored_ce) :
            FilledVersusEmpty(scored_ce[i], scored_ce[j])
            => scored_ce[i].score < scored_ce[j].score

\* The target has no relation to a label, id or placeholder.
Unrelated(sel_lower, attr) ==
    LET attr_lower == Lower(Strip(attr))
    IN  /\ ~Contains(attr_lower, sel_lower)
        /\ attr_lower = "" \/ ~Contains(sel_lower, attr_lower)

\* Every field was empty when type was called, the target is a whole word
\* of the accessible label of field k and unrelated to the label, id and
\* placeholder of every other field.
NamesOnlyField(k) ==
    LET sel_lower == Lower(type_clean_selector(type_selector))
    IN  /\ \A j \in 1..Len(fields0) : fields0[j].current = ""
        /\ WholeWordIn(sel_lower, Lower(Strip(fields0[k].aria_label)))
        /\ \A j \in (1..Len(fields0)) \ {k} :
              /\ Unrelated(sel_lower, fields0[j].aria_label)
              /\ Unrelated(sel_lower, fields0[j].id)
              /\ Unrelated(sel_lower, fields0[j].placeholder)

\* type has ended with the text written into field k and nothing else
\* changed.
WroteOnlyInto(k) ==
    /\ type_pc = "returned"
    /\ typed = k
    /\ fields[k].current = type_text
    /\ \A j \in (1..Len(fields)) \ {k} : fields[j] = fields0[j]

\* C15: when the target is a whole word of the accessible label of one
\* empty field and unrelated to the other empty fields, type writes the
\* text into that field and leaves every other field unchanged.
C15_WritesIntoNamedField ==
    \A k \in 1..Len(fields0) :
        (NamesOnlyField(k) /\ type_pc \in {"returned", "raised"}) => WroteOnlyInto(k)

\* C15, what the code does: with input elements the selector
\* input[placeholder*="<text>"] of strategy 4 fills another field, whose
\* placeholder happens to hold the text being typed.
C15_TextMatchedOtherField ==
    \E k \in 1..Len(fields0) :
        /\ NamesOnlyField(k)
        /\ type_pc = "returned"
        /\ type_via = "selector"
        /\ typed # k
        /\ Contains(fields0[typed].placeholder, type_text)
        /\ fields[typed].current = type_text
        /\ fields[k].current = ""

\* C15, the scenario with contenteditable fields that strategy 0 sees: the
\* named field is the one written into.
C15_ContentEditableScenario ==
    \A k \in 1..Len(fields0) :
        ( /\ NamesOnlyField(k)
          /\ k \in CeElements(fields0, modal_open)
          /\ type_pc \in {"returned", "raised"} )
        => WroteOnlyInto(k)

(***************************************************************************)
(* Properties of understand_task and the plan sanitizer                    *)
(***************************************************************************)

\* The sanitizer has run on its own output.
Resanitized == plan_pc = "resanitized"

\* C16: the plan sanitizer is idempotent: applied to a plan it produced, it
\* removes no further step and changes nothing.
C16_SanitizerIdempotent == Resanitized => resanitized = task_plan

\* The second application removes no step and changes none.
C16_NoFurtherRemovals == Resanitized => resanitized.steps = task_plan.steps

\* The second application rewrote the startingUrl that the first produced.
C16_UrlRewrittenAgain ==
    /\ Resanitized
    /\ resanitized.steps = task_plan.steps
    /\ resanitized.startingUrl # task_plan.startingUrl

\* The sanitizer returned to understand_task.
Sanitized == plan_pc = "returned" /\ plan_via = "oracle"

\* a is b with some of its elements left out, the rest in b's order.
RECURSIVE IsSubsequence(_, _)
IsSubsequence(a, b) ==
    IF a = <<>> THEN TRUE
    ELSE IF b = <<>> THEN FALSE
    ELSE IF Head(a) = Head(b) THEN IsSubsequence(Tail(a), Tail(b))
    ELSE IsSubsequence(a, Tail(b))

\* C17: the sanitizer is a pure filter: the steps it puts out are a
\* subsequence of the steps it was given, each kept step with the action,
\* target, value and description it had.
C17_SanitizerIsPureFilter ==
    /\ plan_pc = "unmentioned" => IsSubsequence(task_plan.steps, fixed_plan.steps)
    /\ Sanitized => IsSubsequence(task_plan.steps, fixed_plan.steps)

\* The sanitizer kept one step of two and removed the other.
C17_Witness ==
    /\ Sanitized
    /\ Len(fixed_plan.steps) = 2
    /\ Len(task_plan.steps) = 1

\* The task text references user assignment.
TaskReferencesAssignment ==
    \/ Contains(Lower(task_query), "assignee")
    \/ Contains(Lower(task_query), "assign to")

\* The steps that _filter_unmentioned_steps was given.
UnmentionedInput == filter_login_steps(fixed_plan).steps

StepsOf(p) == { p.steps[k] : k \in 1..Len(p.steps) }

\* C18: when the task text references user assignment, every assignee step
\* is kept, whatever else the task text contains.
C18_AssigneeStepsKept ==
    (Sanitized /\ TaskReferencesAssignment) =>
        \A k \in 1..Len(UnmentionedInput) :
            AssigneeStep(UnmentionedInput[k]) =>
                UnmentionedInput[k] \in StepsOf(task_plan)

\* A task text whose only "assign" phrasing is "assign it as" does not count
\* as referencing the assignee: the assignee steps are removed.
C18_AssignItAsIsNotAssignee ==
    (Sanitized /\ ~TaskReferencesAssignment) =>
        \A k \in 1..Len(task_plan.steps) : ~AssigneeStep(task_plan.steps[k])

\* The task text says "assign to" and "assign it as", and an assignee step
\* was removed.
C18_AssigneeStepRemoved ==
    /\ Sanitized
    /\ Contains(Lower(task_query), "assign to")
    /\ Contains(Lower(task_query), "assign it as")
    /\ \E k \in 1..Len(UnmentionedInput) :
          /\ AssigneeStep(UnmentionedInput[k])
          /\ UnmentionedInput[k] \notin StepsOf(task_plan)

\* The description, target or value of the step holds a login keyword.
MentionsLogin(step) ==
    \/ AnyKeywordIn(GetLower(step.description), login_keywords)
    \/ AnyKeywordIn(GetLower(step.target), login_keywords)
    \/ AnyKeywordIn(GetLower(step.value), login_keywords)

\* _filter_login_steps has returned.
LoginFiltered == plan_pc = "unmentioned"

\* C19: _filter_login_steps removes every step whose description, target or
\* value contains a login keyword, and keeps every other step.
C19_LoginStepsRemoved ==
    LoginFiltered =>
        \A k \in 1..Len(fixed_plan.steps) :
            MentionsLogin(fixed_plan.steps[k]) <=>
                fixed_plan.steps[k] \notin StepsOf(task_plan)

\* The steps with a login keyword in the description or the target are
\* removed, the others kept.
C19_DescriptionOrTargetDecides ==
    LoginFiltered =>
        \A k \in 1..Len(fixed_plan.steps) :
            is_login_step(fixed_plan.steps[k]) <=>
                fixed_plan.steps[k] \notin StepsOf(task_plan)

\* A step with a login keyword in its value only was kept.
C19_LoginValueKept ==
    /\ LoginFiltered
    /\ \E k \in 1..Len(task_plan.steps) :
          /\ MentionsLogin(task_plan.steps[k])
          /\ ~is_login_step(task_plan.steps[k])

\* C20: every plan that understand_task returns has a non-empty steps list.
C20_ReturnedPlanNonEmpty == plan_pc = "returned" => task_plan.steps # <<>>

\* The validation saw steps, the sanitizer removed them all, and
\* understand_task returned the plan.
C20_EmptyPlanReturned ==
    /\ Sanitized
    /\ oracle.plan.steps # <<>>
    /\ task_plan.steps = <<>>

\* Under Spec: execute_task ran through a plan without steps and saved the
\* dataset.
C20_EmptyPlanExecuted == plan0 = <<>> /\ dataset_saved

\* A fallback plan has steps.
C20_FallbackPlanNonEmpty ==
    (plan_pc = "returned" /\ plan_via = "fallback") => task_plan.steps # <<>>

(***************************************************************************)
(* Properties of the repair and of the recovery stages                     *)
(***************************************************************************)

\* Two steps that differ in the action and the target at most.
SameButActionTarget(a, b) ==
    /\ a.description = b.description
    /\ a.value = b.value
    /\ a.captureBefore = b.captureBefore
    /\ a.captureAfter = b.captureAfter

\* C21: a repair of step i changes at most the action and the target of
\* step i: the number and order of the steps, every other step, and the
\* description, value, captureBefore and captureAfter of step i stay.
C21_RepairFrame ==
    [][ /\ Len(plan') = Len(plan)
        /\ \A i \in 1..Len(plan) :
              /\ SameButActionTarget(plan'[i], plan[i])
              /\ plan'[i] # plan[i] =>
                    /\ i = step_index
                    /\ oracleCalls' = oracleCalls + 1 ]_vars

\* A repair rewrote the second of two steps, whose value is not empty.
C21_Witness ==
    /\ Len(plan) = 2
    /\ step_index = 2
    /\ lastVerdict = "accepted"
    /\ plan[2] # lastFailedStep
    /\ plan[2].value # ""
    /\ plan[1] = plan0[1]

\* The semantic guardrail of _adapt_plan_from_page lets a suggested target
\* through for a step whose target is original.
GuardrailAccepts(original, suggested) ==
    /\ ~ExplicitMismatch(Strip(Lower(original)), Lower(suggested))
    /\ matches_semantically(Strip(Lower(original)), Lower(suggested))

\* A repair wrote the target that step i has now.
RepairedTarget(i) ==
    /\ plan0[i].target # None
    /\ plan[i].target # plan0[i].target
    /\ plan[i].target # "step-skipped"

\* C22: every target that a repair writes into a step passes the semantic
\* guardrail relative to the target the planner gave the step, also after
\* two successive repairs.
C22_GuardrailAgainstOriginal ==
    \A i \in 1..Len(plan) :
        RepairedTarget(i) => GuardrailAccepts(plan0[i].target, plan[i].target)

\* The target written by a repair passes the guardrail relative to the
\* target that the repair found in the step.
C22_GuardrailAgainstCurrent ==
    (lastVerdict = "accepted" /\ pc = "attempt") =>
        GuardrailAccepts(lastFailedStep.target, plan[step_index].target)

\* Two repairs of one step were accepted, and the target of the second does
\* not pass the guardrail relative to the planner's target.
C22_ChainLeavesOriginal ==
    /\ step_index > 0
    /\ oracleCalls = 2
    /\ lastVerdict = "accepted"
    /\ lastFailedStep.target # plan0[step_index].target
    /\ RepairedTarget(step_index)
    /\ ~GuardrailAccepts(plan0[step_index].target, plan[step_index].target)

\* C23: within one step the recovery stages are ordered: the heuristic
\* alternatives are tried only after the first failed attempt and at most
\* once; the repair oracle is consulted only after a failed attempt that
\* leaves retries and after the heuristics have failed, once per such
\* attempt and at most twice; no oracle call follows the third failure.
C23_RecoveryStagesOrdered ==
    /\ heurCalls <= 1
    /\ oracleCalls <= max_retries
    /\ pc = "heuristic" =>
          /\ retry_count = 1 /\ execCalls = 1
          /\ heurCalls = 0 /\ oracleCalls = 0
    /\ pc = "repair" =>
          /\ retry_count \in 1..max_retries
          /\ execCalls = retry_count
          /\ oracleCalls = retry_count - 1
          /\ heurCalls = 1 /\ ~heurFound
    /\ oracleCalls >= 1 => heurCalls = 1 /\ ~heurFound
    /\ (pc = "attempt" /\ retry_count >= 1) => oracleCalls = retry_count
    /\ retry_count > max_retries =>
          /\ pc \notin {"heuristic", "repair", "attempt"}
          /\ oracleCalls = max_retries
          /\ execCalls = max_retries + 1

\* A step failed three times: the heuristics ran once after the first
\* failure, the oracle once after each of the first two.
C23_Witness ==
    /\ step_index > 0
    /\ outcome[step_index] = "Failed"
    /\ execCalls = 3
    /\ heurCalls = 1
    /\ oracleCalls = 2

TerminalOutcomes == {"Committed", "Skipped", "Failed"}

\* The retry loop of the current step is running.
StepRunning == pc \in {"attempt", "heuristic", "repair"}

\* The current step has its terminal outcome and its retry loop is left.
StepSettled ==
    /\ ~StepRunning
    /\ step_index > 0
    /\ outcome[step_index] \in TerminalOutcomes

\* C24: the retry loop of a step terminates: the step reaches one terminal
\* outcome among Committed, Skipped and Failed, keeps it, and is not
\* entered again.
C24_StepTerminates ==
    /\ [](StepRunning => outcome[step_index] = "Pending")
    /\ StepRunning ~> StepSettled
    /\ [][ \A i \in 1..Len(outcome) :
              outcome[i] \in TerminalOutcomes =>
                  /\ outcome'[i] = outcome[i]
                  /\ ~(step_index' = i /\ pc' \in {"attempt", "heuristic", "repair"})
       ]_vars

\* Both steps of a plan have their outcome, the second after three attempts.
C24_Witness ==
    /\ Len(outcome) = 2
    /\ outcome[1] \in {"Committed", "Skipped"}
    /\ outcome[2] = "Failed"
    /\ execCalls = 3
    /\ pc = "exited"

(***************************************************************************)
(* Properties of the target descriptor and of the scoring tiers            *)
(***************************************************************************)

\* The strategies 1 and 2 of click have been passed or skipped.
PastDirect == click_pc \notin {"idle", "start"}

\* The normalized text is one word and that word is one of the verbs.
IsCollisionVerb(sel) ==
    /\ Len(Split(clean_selector(sel))) = 1
    /\ \E i \in 1..Len(ambiguous_keywords) :
          Lower(clean_selector(sel)) = ambiguous_keywords[i]

\* C25: click treats a target as ambiguous exactly when its normalized text
\* is a single word that is one of the verbs, or when the target is an
\* accessible-label selector; a single word that only contains a verb is
\* not ambiguous.
C25_AmbiguousIffVerb ==
    PastDirect =>
        (is_ambiguous(selector) <=>
            (IsCollisionVerb(selector) \/ is_aria_label_selector(selector)))

\* The direct strategies click only for a target that is not ambiguous.
C25_DirectOnlyUnambiguous ==
    click_via \in {"selector", "text"} => ~is_ambiguous(selector)

\* The target "Recreate" went to the scoring although the first element of
\* the page is a button with exactly that text.
C25_SubstringWordScored ==
    /\ click_pc = "returned"
    /\ selector = "Recreate"
    /\ page[1].text = "Recreate"
    /\ click_via \notin {"selector", "text"}
    /\ ~IsCollisionVerb(selector)

\* ScoreCandidates has just filled scored_buttons for a text target.
TextScored == click_pc = "rank" /\ ~is_aria_label_selector(selector)

\* The tier table as stated: containment counts in either direction, the
\* candidate's text or label inside the target when it is not empty.
StatedTextTier(sel_lower, text_lower, aria_lower) ==
    IF sel_lower = text_lower \/ sel_lower = aria_lower THEN 100
    ELSE IF StartsWith(text_lower, sel_lower \o " ") THEN 80
    ELSE IF StartsWith(text_lower, sel_lower) THEN 60
    ELSE IF \/ share_significant_words(sel_lower, text_lower)
            \/ share_significant_words(sel_lower, aria_lower) THEN 50
    ELSE IF \/ Contains(text_lower, sel_lower) \/ Contains(aria_lower, sel_lower)
            \/ text_lower # "" /\ Contains(sel_lower, text_lower)
            \/ aria_lower # "" /\ Contains(sel_lower, aria_lower) THEN 40
    ELSE 0

StatedBase(k) ==
    StatedTextTier(Lower(clean_selector(selector)), Lower(Strip(page[k].text)),
                   Lower(Strip(page[k].aria_label)))

\* Element k of the page reaches the tier table: the button query returns
\* it and the loop does not pass it over as a checkbox, radio or toggle.
ReachesTiers(k) ==
    /\ page[k].button
    /\ ~(page[k].tag = "input" /\ page[k].type \in {"checkbox", "radio"})
    /\ ~SkippedAsToggle(page[k])

EntriesOf(k) ==
    { i \in 1..Len(scored_buttons) : scored_buttons[i].element = k }

\* C26: for a text target the base score of a candidate is set by the first
\* matching tier of the table 100 / 80 / 60 / 50 / 40, the last being
\* containment in either direction, and a candidate that matches a tier is
\* kept with that base.
C26_StatedTiers ==
    TextScored =>
        \A k \in 1..Len(page) :
            ReachesTiers(k) =>
                /\ StatedBase(k) > 0 <=> EntriesOf(k) # {}
                /\ \A i \in EntriesOf(k) :
                      scored_buttons[i].score = StatedBase(k) + Adjustments(page[k])

\* The same with the containment of the code: the target inside the
\* candidate's text or label.
C26_TiersOfTheCode ==
    TextScored =>
        \A k \in 1..Len(page) :
            ReachesTiers(k) =>
                /\ BaseScore(selector, page[k]) > 0 <=> EntriesOf(k) # {}
                /\ \A i \in EntriesOf(k) :
                      scored_buttons[i].score =
                          BaseScore(selector, page[k]) + Adjustments(page[k])

\* A candidate whose text lies inside the target, and that shares no
\* significant word with it, was not kept.
C26_ContainedCandidateDropped ==
    /\ TextScored
    /\ \E k \in 1..Len(page) :
          /\ ReachesTiers(k)
          /\ StatedBase(k) = 40
          /\ BaseScore(selector, page[k]) = 0
          /\ EntriesOf(k) = {}

\* The latest repair of the current step has returned.
Repaired == pc = "attempt" /\ oracleCalls >= 1

\* The oracle answered, did not request a skip and gave no usable target:
\* the key is missing, or its value is null or empty.
NoUsableTarget(sug) ==
    /\ ~sug.raises
    /\ ~sug.skip
    /\ \/ ~sug.hasTarget
       \/ sug.target = None
       \/ Strip(sug.target) = ""

\* C27: a suggestion that requests no skip and carries no usable target
\* makes the repair mark the step as skip; the step is not left unchanged.
C27_NoTargetSkips ==
    (Repaired /\ NoUsableTarget(lastSuggestion)) =>
        /\ plan[step_index].action = "skip"
        /\ plan[step_index].target = "step-skipped"

\* The same for a target key that is missing or holds an empty string.
C27_MissingOrEmptySkips ==
    (Repaired /\ NoUsableTarget(lastSuggestion)
              /\ ~(lastSuggestion.hasTarget /\ lastSuggestion.target = None)) =>
        /\ plan[step_index].action = "skip"
        /\ plan[step_index].target = "step-skipped"

\* The oracle answered with "target": null, and the step is as it was.
C27_NullTargetLeavesStep ==
    /\ Repaired
    /\ NoUsableTarget(lastSuggestion)
    /\ lastSuggestion.hasTarget /\ lastSuggestion.target = None
    /\ plan[step_index] = lastFailedStep
    /\ plan[step_index].action # "skip"

\* Strategy 0 of type wrote into a contenteditable field and returned.
TypedContentEditable == type_pc = "returned" /\ type_via = "contenteditable"

\* C28: after type(target, v) succeeds on a contenteditable field the field
\* holds exactly v, whatever it held before: other text is cleared first,
\* and typing v into a field that holds v leaves v once.
C28_FieldHoldsTypedText ==
    TypedContentEditable => fields[typed].current = type_text

\* A field that was empty or held other text holds exactly the typed text.
C28_OtherTextCleared ==
    (TypedContentEditable /\ Lower(Strip(fields0[typed].current)) # Lower(type_text)) =>
        fields[typed].current = type_text

\* The field held the text to type, and holds it twice after the call.
C28_TextTypedTwice ==
    /\ TypedContentEditable
    /\ fields0[typed].current = type_text
    /\ fields[typed].current = type_text \o type_text

(***************************************************************************)
(* Properties of the captured states                                       *)
(***************************************************************************)

\* Every step of the plan ended Committed or Skipped.
AllStepsDone ==
    \A i \in 1..Len(outcome) : outcome[i] \in {"Committed", "Skipped"}

\* C29: every entry of captured_states is a state record of a capture that
\* took place: a skipped capture adds no entry, and save_dataset processes
\* every entry when all steps ended Committed or Skipped.
C29_EntriesAreRecords ==
    /\ \A k \in 1..Len(captured_states) : captured_states[k] # None
    /\ (AllStepsDone /\ pc \in {"done", "raised", "exited"}) => dataset_saved

\* The entries that are there are in the order of the captures: whatever
\* capture returned was appended.
C29_OneEntryPerCaptureCall ==
    [][ Len(captured_states') \in {Len(captured_states), Len(captured_states) + 1}
        /\ SubSeq(captured_states', 1, Len(captured_states)) = captured_states ]_vars

\* All steps were committed, a skipped capture left a null entry, and
\* save_dataset raised on it: the process exits with code 1.
C29_NullEntryFailsSave ==
    /\ pc = "exited"
    /\ exit_code = 1
    /\ Len(outcome) > 0
    /\ AllStepsDone
    /\ ~dataset_saved
    /\ \E k \in 1..Len(captured_states) : captured_states[k] = None

(***************************************************************************)
(* Properties of Navigator.select                                          *)
(***************************************************************************)

\* select clicked an element of the custom dropdown and returned.
OptionClicked == select_pc = "returned" /\ select_via # "native"

\* The text of the element is not empty and equals or contains the value,
\* letter case ignored.
RelatedToValue(opt, value) ==
    /\ Strip(opt.text) # ""
    /\ Contains(Lower(Strip(opt.text)), Lower(value))

\* C30: select on a custom dropdown either clicks a visible option whose
\* non-empty text equals or contains the value, letter case ignored, or
\* raises; it never clicks an option whose text has no relation to the
\* value, such as an option with empty text.
C30_ClickedOptionMatchesValue ==
    /\ select_pc \in {"returned", "raised"} => (selected # 0 <=> OptionClicked)
    /\ OptionClicked =>
          /\ options[selected].visible
          /\ RelatedToValue(options[selected], select_value)

\* Whatever is clicked is visible, and select raises only when no strategy
\* found an element.
C30_ClickedIsVisible ==
    /\ OptionClicked => options[selected].visible
    /\ select_pc = "raised" => selected = 0

\* The loop over all options clicked an option with empty text for a value
\* that no option of the page holds.
C30_EmptyOptionClicked ==
    /\ OptionClicked
    /\ select_via = "text"
    /\ options[selected].kind = "option"
    /\ options[selected].text = ""
    /\ \A k \in 1..Len(options) : ~RelatedToValue(options[k], select_value)

====
